---- MODULE Spec2Model ----
(***************************************************************************)
(* RL-Tracker: the stats parser (parser.py) that turns the flattened text  *)
(* of overview.html into ranks, sessions, an activity heatmap and lifetime *)
(* stats and saves them to rl_stats.json, and the dashboard's reader of    *)
(* that file (app.py).                                                     *)
(*                                                                         *)
(* The page text is a sequence of words (the whitespace-separated pieces   *)
(* the regular expressions of parser.py tell apart); a multi-word literal  *)
(* of a pattern ("Session Overview", "Ranked Duel 1v1") is one word.       *)
(* A date key 'YYYY-MM-DD' is the tuple <<y, m, d>>; None is <<>>.         *)
(***************************************************************************)
EXTENDS Integers, Sequences, FiniteSets, TLC

----------------------------------------------------------------------------
(* datetime arithmetic used by _parse_relative_date: proleptic Gregorian   *)
(* ordinals, as datetime computes `today - timedelta(days=n)`.             *)

NoDate == <<>>

IsLeap(y) == (y % 4 = 0) /\ ((y % 100 # 0) \/ (y % 400 = 0))

DaysInMonthTable == <<31, 28, 31, 30, 31, 30, 31, 31, 30, 31, 30, 31>>

DaysBeforeMonthTable == <<0, 31, 59, 90, 120, 151, 181, 212, 243, 273, 304, 334>>

DaysBeforeYear(y) ==
    LET p == y - 1 IN p * 365 + (p \div 4) - (p \div 100) + (p \div 400)

DaysBeforeMonth(y, m) ==
    DaysBeforeMonthTable[m] + (IF m > 2 /\ IsLeap(y) THEN 1 ELSE 0)

Ymd2Ord(dt) == DaysBeforeYear(dt[1]) + DaysBeforeMonth(dt[1], dt[2]) + dt[3]

Ord2Ymd(ord) ==
    LET n0   == ord - 1
        n400 == n0 \div 146097
        r400 == n0 % 146097
        n100 == r400 \div 36524
        r100 == r400 % 36524
        n4   == r100 \div 1461
        r4   == r100 % 1461
        n1   == r4 \div 365
        n    == r4 % 365
        year == n400 * 400 + 1 + n100 * 100 + n4 * 4 + n1
    IN  IF n1 = 4 \/ n100 = 4
        THEN <<year - 1, 12, 31>>
        ELSE LET leap  == (n1 = 3) /\ (n4 # 24 \/ n100 = 3)
                 m0    == (n + 50) \div 32
                 prec0 == DaysBeforeMonthTable[m0]
                            + (IF m0 > 2 /\ leap THEN 1 ELSE 0)
                 month == IF prec0 > n THEN m0 - 1 ELSE m0
                 prec  == IF prec0 > n
                          THEN prec0 - (DaysInMonthTable[month]
                                 + (IF month = 2 /\ leap THEN 1 ELSE 0))
                          ELSE prec0
             IN  <<year, month, n - prec + 1>>

\* today - timedelta(days=n): OverflowError (here NoDate, the value the
\* caller's except turns it into) when the timedelta or the date is out of
\* range.
SubDays(today, n) ==
    IF n > 999999999 \/ Ymd2Ord(today) - n < 1
    THEN NoDate
    ELSE Ord2Ymd(Ymd2Ord(today) - n)

\* a week counted as one day
SubWeeksAsDays(today, n) == SubDays(today, n)

\* today - timedelta(weeks=n)
SubWeeks(today, n) ==
    IF n > 999999999 \div 7 THEN NoDate ELSE SubDays(today, 7 * n)

\* the calendar day after dt (the wall clock passing midnight)
NextDay(dt) == Ord2Ymd(Ymd2Ord(dt) + 1)

RECURSIVE Digits(_)
\* the decimal digits of n
Digits(n) == IF n < 10 THEN <<n>> ELSE Digits(n \div 10) \o <<n % 10>>

\* two digits, zero-padded
TwoDigits(n) == <<n \div 10, n % 10>>

\* strftime('%Y-%m-%d'), as characters (a digit, or -1 for '-', which
\* sorts before the digits). %Y of a year below 1000 is zero-padded to
\* four digits by some C libraries and left as it is by others (glibc):
\* `pad` says which.
Strftime(dt, pad) ==
    (IF pad /\ dt[1] < 1000
     THEN [i \in 1..(4 - Len(Digits(dt[1]))) |-> 0] ELSE <<>>)
    \o Digits(dt[1]) \o <<-1>> \o TwoDigits(dt[2]) \o <<-1>>
    \o TwoDigits(dt[3])

RECURSIVE StrLess(_, _)
\* a < b for two strings
StrLess(a, b) ==
    IF a = <<>> THEN b # <<>>
    ELSE IF b = <<>> THEN FALSE
    ELSE IF Head(a) # Head(b) THEN Head(a) < Head(b)
    ELSE StrLess(Tail(a), Tail(b))

\* order of the 'YYYY-MM-DD' keys under sorted()
DateLess(a, b, pad) == StrLess(Strftime(a, pad), Strftime(b, pad))

----------------------------------------------------------------------------
(* Words and what the patterns of parser.py capture from them.             *)

\* str.lower() on the words of the vocabulary that are not lower case
LowerOf ==
    ("Days" :> "days") @@ ("Session Overview" :> "session overview")
    @@ ("Get the Mobile" :> "get the mobile")
    @@ ("Premium users" :> "premium users")
    @@ ("Yesterday" :> "yesterday") @@ ("Lifetime" :> "lifetime")
    @@ ("Supersonic" :> "supersonic") @@ ("Legend" :> "legend")
    @@ ("Grand" :> "grand") @@ ("Champion" :> "champion")
    @@ ("Diamond" :> "diamond") @@ ("Platinum" :> "platinum")
    @@ ("Gold" :> "gold") @@ ("Silver" :> "silver")
    @@ ("Bronze" :> "bronze") @@ ("Unranked" :> "unranked")
    @@ ("Div" :> "div") @@ ("I" :> "i") @@ ("II" :> "ii")
    @@ ("III" :> "iii") @@ ("IV" :> "iv") @@ ("V" :> "v")

Lower(w) == IF w \in DOMAIN LowerOf THEN LowerOf[w] ELSE w

\* int() of a captured digit string
IntOf ==
    ("0" :> 0) @@ ("1" :> 1) @@ ("2" :> 2) @@ ("3" :> 3) @@ ("4" :> 4)
    @@ ("5" :> 5) @@ ("9" :> 9) @@ ("13" :> 13) @@ ("24" :> 24)
    @@ ("49" :> 49) @@ ("109" :> 109) @@ ("249" :> 249) @@ ("823" :> 823)
    @@ ("1000" :> 1000) @@ ("1096" :> 1096) @@ ("1308" :> 1308)
    @@ ("1000000000" :> 1000000000) @@ ("375000" :> 375000)
    @@ ("3750" :> 3750)
    @@ ("096" :> 96) @@ ("308" :> 308) @@ ("257" :> 257) @@ ("12" :> 12)
    @@ ("77" :> 77) @@ ("599" :> 599) @@ ("706" :> 706)

\* the words matched whole by \d+
DigitWords ==
    {"0", "1", "2", "3", "4", "5", "9", "13", "249", "823", "1096",
     "375000", "1000000000"}

IsDigits(w) == w \in DigitWords

\* (\d{1,2}) directly before \s+Match: the last two digits of a digit word
CountCapture ==
    ("0" :> "0") @@ ("1" :> "1") @@ ("2" :> "2") @@ ("3" :> "3")
    @@ ("4" :> "4") @@ ("5" :> "5") @@ ("9" :> "9") @@ ("13" :> "13")
    @@ ("249" :> "49")

\* (\d{1,3}(?:,\d{3})?) directly after the playlist label
RatingCapture ==
    ("823" :> "823") @@ ("1,096" :> "1,096") @@ ("1,308" :> "1,308")
    @@ ("1096" :> "109") @@ ("0" :> "0") @@ ("9" :> "9")

\* str.replace(',', '')
StripComma ==
    ("1,096" :> "1096") @@ ("1,308" :> "1308")

NoComma(s) == IF s \in DOMAIN StripComma THEN StripComma[s] ELSE s

\* sub in w, for the substrings parser.py tests
WordsContaining ==
    ("hour" :> {"hour", "hours"})
    @@ ("day" :> {"day", "days", "yesterday", "today"})
    @@ ("week" :> {"week", "weeks"})
    @@ ("Standard" :> {"Ranked Standard 3v3"})
    @@ ("3v3" :> {"Ranked Standard 3v3", "Ranked Duel 3v3"})
    @@ ("Doubles" :> {"Ranked Doubles 2v2"})
    @@ ("2v2" :> {"Ranked Doubles 2v2"})
    @@ ("Duel" :> {"Ranked Duel 1v1", "Ranked Duel 3v3"})
    @@ ("1v1" :> {"Ranked Duel 1v1"})

Contains(w, sub) == w \in WordsContaining[sub]

\* Ranked\s+(?:Duel|Doubles|Standard|4v4\s+Quads?)\s+\dv\d
MatchPlaylistWords ==
    {"Ranked Standard 3v3", "Ranked Doubles 2v2", "Ranked Duel 1v1",
     "Ranked Duel 3v3", "Ranked 4v4 Quads 4v4"}

----------------------------------------------------------------------------
(* _parse_relative_date                                                    *)

RECURSIVE FirstIndex(_, _, _)
\* the least i >= from with P[i], or 0: the position re.search reports
FirstIndex(P, from, to) ==
    IF from > to THEN 0
    ELSE IF P[from] THEN from
    ELSE FirstIndex(P, from + 1, to)

\* relative_str.lower()
LowerPhrase(phrase) == [i \in 1..Len(phrase) |-> Lower(phrase[i])]

HasUnit(text, unit) == \E i \in 1..Len(text) : Contains(text[i], unit)

\* None where line 283 returns today's date
NoIntegerNone(today) == NoDate

\* lines 282-283: no integer in the phrase
NoIntegerDate(today) == today

\* line 297: an integer, and none of the units
NoUnitDate(today) == today

ParseRelativeDate(phrase, today) ==
    LET text == LowerPhrase(phrase)
        at   == FirstIndex([i \in 1..Len(text) |-> IsDigits(text[i])],
                           1, Len(text))
    IN  IF at = 0 THEN NoIntegerDate(today)
        ELSE LET num == IntOf[text[at]]
             IN  IF HasUnit(text, "hour") THEN today
                 ELSE IF HasUnit(text, "day") THEN SubDays(today, num)
                 ELSE IF HasUnit(text, "week") THEN SubWeeks(today, num)
                 ELSE NoUnitDate(today)

\* str.strip() on the strings of the vocabulary with surrounding blanks
StripOf == (" 2025-11-15 " :> "2025-11-15")

Strip(x) == IF x \in DOMAIN StripOf THEN StripOf[x] ELSE x

\* datetime.strptime(s, fmt) for the formats of lines 255-261, in their
\* order: the strings each format parses, and the date it reads
Strptime ==
    << ("11/15/2025" :> <<2025, 11, 15>>) @@ ("03/04/2025" :> <<2025, 3, 4>>),
       ("2025-11-15" :> <<2025, 11, 15>>),
       ("15/11/2025" :> <<2025, 11, 15>>) @@ ("03/04/2025" :> <<2025, 4, 3>>),
       ("Nov 15, 2025" :> <<2025, 11, 15>>) @@ ("May 5, 2025" :> <<2025, 5, 5>>),
       ("November 15, 2025" :> <<2025, 11, 15>>)
           @@ ("May 5, 2025" :> <<2025, 5, 5>>) >>

\* _parse_absolute_date: the first format that parses, else None
ParseAbsoluteDate(date_str) ==
    LET x    == Strip(date_str)
        hits == {k \in 1..Len(Strptime) : x \in DOMAIN Strptime[k]}
    IN  IF hits = {} THEN NoDate
        ELSE Strptime[CHOOSE k \in hits : \A j \in hits : k <= j][x]

----------------------------------------------------------------------------
(* extract_matches: segmentation and per-session field extraction          *)

MaxSessions == 20

IsMarker(w) == Lower(w) = "session overview"

IsSentinel(w) == Lower(w) \in {"get the mobile", "premium users"}

IsUnitWord(w) ==
    Lower(w) \in {"hour", "hours", "day", "days", "week", "weeks",
                  "month", "months"}

\* Session Overview\s+(\d+\s+(?:hours?|days?|weeks?|months?)\s+ago) at i
SessionStartsAt(text, i) ==
    /\ i + 3 <= Len(text)
    /\ IsMarker(text[i])
    /\ IsDigits(text[i + 1])
    /\ IsUnitWord(text[i + 2])
    /\ Lower(text[i + 3]) = "ago"

\* (.*?)(?=Session Overview|Get the Mobile|Premium users|$): where the body
\* that starts at `from` ends (the index of the lookahead's match)
BodyEnd(text, from) ==
    LET stop == FirstIndex([i \in 1..Len(text) |->
                               IsMarker(text[i]) \/ IsSentinel(text[i])],
                           from, Len(text))
    IN  IF stop = 0 THEN Len(text) + 1 ELSE stop

RECURSIVE FindSessions(_, _)
\* re.findall(session_pattern, full_text, re.DOTALL | re.IGNORECASE)
FindSessions(text, i) ==
    IF i > Len(text) THEN <<>>
    ELSE IF SessionStartsAt(text, i)
    THEN LET e == BodyEnd(text, i + 4)
         IN  <<[time_ago |-> SubSeq(text, i + 1, i + 3),
                details  |-> SubSeq(text, i + 4, e - 1)]>>
             \o FindSessions(text, e)
    ELSE FindSessions(text, i + 1)

\* (\d+) directly before \s+: the run of digits a word ends with
TrailingDigits ==
    [w \in DigitWords |-> w]
    @@ ("1,096" :> "096") @@ ("1,308" :> "308") @@ ("Div257" :> "257")
    @@ ("goals7#1" :> "1") @@ ("Saves868#12" :> "12")
    @@ ("Goals1,204#77" :> "77") @@ ("Wins2,260#2,449,599" :> "599")
    @@ ("Goal Shot Ratio48.5#9,633,706" :> "706")
    @@ ("TRN Score1,002.5#3" :> "3") @@ ("Ranked Duel 1v1" :> "1")
    @@ ("Ranked Doubles 2v2" :> "2") @@ ("Ranked Standard 3v3" :> "3")
    @@ ("Ranked Duel 3v3" :> "3") @@ ("Ranked 4v4 Quads 4v4" :> "4")

\* the words that begin with "Win"
WinWords == {"Win", "Wins", "Wins2,260#2,449,599"}

\* re.search(r'(\d+)\s+Wins?', details): the captured group, or ""
WinsCapture(details) ==
    LET at == FirstIndex([i \in 1..Len(details) |->
                             /\ i < Len(details)
                             /\ details[i] \in DOMAIN TrailingDigits
                             /\ details[i + 1] \in WinWords],
                         1, Len(details))
    IN  IF at = 0 THEN "" ELSE TrailingDigits[details[at]]

MatchCountAt(details, i) ==
    /\ i + 3 <= Len(details)
    /\ details[i] \in DOMAIN CountCapture
    /\ details[i + 1] \in {"Match", "Matches"}
    /\ details[i + 2] \in MatchPlaylistWords
    /\ details[i + 3] \in DOMAIN RatingCapture

RECURSIVE FindMatchCounts(_, _)
\* re.findall(r'(\d{1,2})(?:\s+Match(?:es)?)\s+(Ranked...)\s*(\d{1,3}...)')
FindMatchCounts(details, i) ==
    IF i > Len(details) THEN <<>>
    ELSE IF MatchCountAt(details, i)
    THEN <<<<CountCapture[details[i]], details[i + 2],
             RatingCapture[details[i + 3]]>>>>
         \o FindMatchCounts(details, i + 4)
    ELSE FindMatchCounts(details, i + 1)

\* re.search(label + r'\s+(\d+)', details): the captured group, or ""
LabelledNumber(details, label) ==
    LET at == FirstIndex([i \in 1..Len(details) |->
                             /\ i < Len(details)
                             /\ details[i] = label
                             /\ IsDigits(details[i + 1])],
                         1, Len(details))
    IN  IF at = 0 THEN "" ELSE details[at + 1]

\* re.search(r'Goals\s*/\s*Shots\s+(\d+)\s*/\s*(\d+)', details): the index
\* of the match, or 0
GoalsShotsAt(details) ==
    FirstIndex([i \in 1..Len(details) |->
                   /\ i + 3 <= Len(details)
                   /\ details[i] = "Goals / Shots"
                   /\ IsDigits(details[i + 1])
                   /\ details[i + 2] = "/"
                   /\ IsDigits(details[i + 3])],
               1, Len(details))

\* MVP\s*\((\d+)\)
MvpCapture == ("MVP (2)" :> "2") @@ ("MVP (0)" :> "0")

MvpAt(details) ==
    FirstIndex([i \in 1..Len(details) |-> details[i] \in DOMAIN MvpCapture],
               1, Len(details))

\* the playlist name after lines 178-184
NormalizePlaylist(playlist) ==
    IF Contains(playlist, "Standard") \/ Contains(playlist, "3v3")
    THEN "Ranked Standard 3v3"
    ELSE IF Contains(playlist, "Doubles") \/ Contains(playlist, "2v2")
    THEN "Ranked Doubles 2v2"
    ELSE IF Contains(playlist, "Duel") \/ Contains(playlist, "1v1")
    THEN "Ranked Duel 1v1"
    ELSE playlist

\* the dicts appended to session['matches'], lines 173-192
MatchTallies(match_counts) ==
    [k \in 1..Len(match_counts) |->
        [count    |-> IntOf[match_counts[k][1]],
         playlist |-> NormalizePlaylist(match_counts[k][2]),
         mmr      |-> IntOf[NoComma(match_counts[k][3])]]]

RECURSIVE SumCounts(_)
\* total_matches, and sum(m['count'] for m in matches)
SumCounts(matches) ==
    IF matches = <<>> THEN 0
    ELSE Head(matches).count + SumCounts(Tail(matches))

\* a session's optional keys, lines 161-169
OptionalStats(details) ==
    LET gs      == GoalsShotsAt(details)
        assists == LabelledNumber(details, "Assists")
        saves   == LabelledNumber(details, "Saves")
        mvp     == MvpAt(details)
    IN  (IF gs = 0 THEN <<>>
         ELSE [goals |-> IntOf[details[gs + 1]],
               shots |-> IntOf[details[gs + 3]]])
        @@ (IF assists = "" THEN <<>> ELSE [assists |-> IntOf[assists]])
        @@ (IF saves = "" THEN <<>> ELSE [saves |-> IntOf[saves]])
        @@ (IF mvp = 0 THEN <<>>
            ELSE [mvp_count |-> IntOf[MvpCapture[details[mvp]]]])

\* the session dict built from one findall tuple, lines 131-192
BuildSession(block, today) ==
    LET wins == WinsCapture(block.details)
    IN  [time_ago |-> block.time_ago,
         date     |-> ParseRelativeDate(block.time_ago, today),
         wins     |-> IF wins = "" THEN 0 ELSE IntOf[wins],
         matches  |-> MatchTallies(FindMatchCounts(block.details, 1))]
        @@ OptionalStats(block.details)

\* `=` where line 196 has `+=`
HeatmapAssign(heatmap_data, date, n) == (date :> n) @@ heatmap_data

\* heatmap_data[session_date] += total_matches on a defaultdict(int)
HeatmapAdd(heatmap_data, date, n) ==
    IF date \in DOMAIN heatmap_data
    THEN [heatmap_data EXCEPT ![date] = @ + n]
    ELSE heatmap_data @@ (date :> n)

\* the update without the test of session_date: a session without a date
\* is counted on date.min
UpdateHeatmapUndated(heatmap_data, session) ==
    IF SumCounts(session.matches) > 0
    THEN HeatmapAdd(heatmap_data,
                    IF session.date = NoDate THEN <<1, 1, 1>>
                    ELSE session.date,
                    SumCounts(session.matches))
    ELSE heatmap_data

\* the update without `total_matches > 0`
UpdateHeatmapAlways(heatmap_data, session) ==
    IF session.date # NoDate
    THEN HeatmapAdd(heatmap_data, session.date, SumCounts(session.matches))
    ELSE heatmap_data

\* `if session_date and total_matches > 0`, lines 195-196
UpdateHeatmap(heatmap_data, session) ==
    LET total_matches == SumCounts(session.matches)
    IN  IF session.date # NoDate /\ total_matches > 0
        THEN HeatmapAdd(heatmap_data, session.date, total_matches)
        ELSE heatmap_data

\* the append without the test of line 199
AppendAlways(sessions, session) == Append(sessions, session)

\* `if session['matches']: sessions.append(session)`, lines 199-200
AppendSession(sessions, session) ==
    IF session.matches # <<>> THEN Append(sessions, session) ELSE sessions

RECURSIVE SortedItems(_, _)
\* [{'date': d, 'count': c} for d, c in sorted(heatmap_data.items())]
SortedItems(heatmap_data, pad) ==
    IF DOMAIN heatmap_data = {} THEN <<>>
    ELSE LET dates == DOMAIN heatmap_data
             first == CHOOSE d \in dates :
                          \A e \in dates \ {d} : DateLess(d, e, pad)
         IN  <<[date |-> first, count |-> heatmap_data[first]]>>
             \o SortedItems([d \in dates \ {first} |-> heatmap_data[d]], pad)

----------------------------------------------------------------------------
(* extract_ranks                                                           *)

\* len() of each word of the vocabulary
WordLen ==
    ("/" :> 1) @@ ("0" :> 1) @@ ("1" :> 1) @@ ("1,096" :> 5)
    @@ ("1,308" :> 5) @@ ("1000000000" :> 10) @@ ("1096" :> 4)
    @@ ("375000" :> 6)
    @@ ("13" :> 2) @@ ("2" :> 1) @@ ("249" :> 3) @@ ("3" :> 1)
    @@ ("4" :> 1) @@ ("5" :> 1) @@ ("823" :> 3) @@ ("9" :> 1)
    @@ ("Assists" :> 7) @@ ("Bronze" :> 6) @@ ("Champion" :> 8)
    @@ ("Days" :> 4) @@ ("Diamond" :> 7) @@ ("Div" :> 3)
    @@ ("Div257" :> 6) @@ ("Dropshot" :> 8) @@ ("Get the Mobile" :> 14)
    @@ ("Goal Shot Ratio48.5#9,633,706" :> 29) @@ ("Goals / Shots" :> 13)
    @@ ("Goals1,204#77" :> 13) @@ ("Gold" :> 4) @@ ("Grand" :> 5)
    @@ ("Hoops" :> 5) @@ ("I" :> 1) @@ ("II" :> 2) @@ ("III" :> 3)
    @@ ("IV" :> 2) @@ ("Legend" :> 6) @@ ("Lifetime" :> 8)
    @@ ("MVP (0)" :> 7) @@ ("MVP (2)" :> 7) @@ ("Match" :> 5)
    @@ ("Matches" :> 7) @@ ("Platinum" :> 8) @@ ("Premium users" :> 13)
    @@ ("Ranked 4v4 Quads 4v4" :> 20) @@ ("Ranked Doubles 2v2" :> 18)
    @@ ("Ranked Duel 1v1" :> 15) @@ ("Ranked Duel 3v3" :> 15)
    @@ ("Ranked Standard 3v3" :> 19) @@ ("Rumble" :> 6) @@ ("Saves" :> 5)
    @@ ("Saves868#12" :> 11) @@ ("Session Overview" :> 16)
    @@ ("Silver" :> 6) @@ ("Snowday" :> 7) @@ ("Supersonic" :> 10)
    @@ ("TRN Score1,002.5#3" :> 18) @@ ("V" :> 1) @@ ("Win" :> 3)
    @@ ("Wins" :> 4) @@ ("Wins2,260#2,449,599" :> 19)
    @@ ("Yesterday" :> 9) @@ ("ago" :> 3) @@ ("day" :> 3) @@ ("days" :> 4)
    @@ ("goals7#1" :> 8) @@ ("hour" :> 4) @@ ("hours" :> 5)
    @@ ("just" :> 4) @@ ("minutes" :> 7) @@ ("month" :> 5)
    @@ ("months" :> 6) @@ ("now" :> 3) @@ ("recently" :> 8)
    @@ ("today" :> 5) @@ ("week" :> 4) @@ ("weeks" :> 5)
    @@ ("yesterday" :> 9)

Min(S) == CHOOSE x \in S : \A y \in S : x <= y

RankWindow == 200

\* (pattern, playlist_name), lines 51-59
Playlists ==
    <<
      <<"Ranked Duel 1v1", "Ranked Duel 1v1">>,
      <<"Ranked Doubles 2v2", "Ranked Doubles 2v2">>,
      <<"Ranked Standard 3v3", "Ranked Standard 3v3">>,
      <<"Hoops", "Hoops">>,
      <<"Rumble", "Rumble">>,
      <<"Dropshot", "Dropshot">>,
      <<"Snowday", "Snow Day">>
    >>

\* the alternation without "Grand Champion"
TierNamesNoGrand ==
    << <<"Supersonic", "Legend">>, <<"Champion">>, <<"Diamond">>,
       <<"Platinum">>, <<"Gold">>, <<"Silver">>, <<"Bronze">> >>

\* the alternation (?:Supersonic Legend|Grand Champion|Champion|...), in
\* the order the patterns list it
TierNames ==
    << <<"Supersonic", "Legend">>, <<"Grand", "Champion">>, <<"Champion">>,
       <<"Diamond">>, <<"Platinum">>, <<"Gold">>, <<"Silver">>,
       <<"Bronze">> >>

\* (?:I{1,3}|IV|V)
Numerals == {"I", "II", "III", "IV", "V"}

Unranked == <<"Unranked">>

\* (\d{1,4}(?:,\d{3})?) directly after the playlist label
RankRatingCapture ==
    ("0" :> "0") @@ ("1" :> "1") @@ ("2" :> "2") @@ ("3" :> "3")
    @@ ("4" :> "4") @@ ("5" :> "5") @@ ("9" :> "9") @@ ("13" :> "13")
    @@ ("249" :> "249") @@ ("823" :> "823") @@ ("1096" :> "1096")
    @@ ("1,096" :> "1,096") @@ ("1,308" :> "1,308")
    @@ ("1000000000" :> "1000") @@ ("375000" :> "3750")

\* (?:I{1,3}|IV|V) with nothing required after it: the alternation is
\* tried in order, so of "IV" the first alternative takes the "I"
DivisionCapture(w) == IF w = "IV" THEN "I" ELSE w

\* the words [Div\d\s]*? can consume
IsNoise(w) == w \in {"Div257", "Div"} \cup DigitWords

WordsAt(text, i, ws) ==
    /\ i + Len(ws) - 1 <= Len(text)
    /\ \A k \in 1..Len(ws) : text[i + k - 1] = ws[k]

\* the first alternative of TierNames that matches at i, or <<>>
TierAt(text, i) ==
    LET hits == {t \in 1..Len(TierNames) : WordsAt(text, i, TierNames[t])}
    IN  IF hits = {} THEN <<>> ELSE TierNames[Min(hits)]

\* <tier>\s+<numeral>\s+Div\s+<numeral> at j: the words matched, or <<>>
TierWithDivAt(text, j) ==
    LET tier == TierAt(text, j)
        n    == j + Len(tier)
    IN  IF /\ tier # <<>>
           /\ n + 2 <= Len(text)
           /\ text[n] \in Numerals
           /\ text[n + 1] = "Div"
           /\ text[n + 2] \in Numerals
        THEN SubSeq(text, j, n + 1) \o <<DivisionCapture(text[n + 2])>>
        ELSE <<>>

\* where the tier of pattern_with_div can start for a label at i: after
\* the rating and a run of noise words
CombinedEnds(text, i) ==
    {j \in (i + 2)..Len(text) :
        /\ \A k \in (i + 2)..(j - 1) : IsNoise(text[k])
        /\ TierWithDivAt(text, j) # <<>>}

\* the positions where pattern_with_div matches
CombinedStarts(text, pattern) ==
    {i \in 1..Len(text) :
        /\ i < Len(text)
        /\ text[i] = pattern
        /\ text[i + 1] \in DOMAIN RankRatingCapture
        /\ CombinedEnds(text, i) # {}}

\* the first k characters of a word the window cuts: of a numeral a
\* shorter numeral, of any other word nothing a pattern matches ("")
Partial(w, k) ==
    IF w \in {"II", "III", "IV"} /\ k = 1 THEN "I"
    ELSE IF w = "III" /\ k = 2 THEN "II"
    ELSE ""

RECURSIVE Chunk(_, _, _)
\* full_text[pos:pos+200] from word i on, with `room` characters left: the
\* words wholly inside it, then what is left of the word it cuts
Chunk(text, i, room) ==
    IF i > Len(text) \/ room < 0 THEN <<>>
    ELSE IF WordLen[text[i]] <= room
    THEN <<text[i]>> \o Chunk(text, i + 1, room - WordLen[text[i]] - 1)
    ELSE <<Partial(text[i], room)>>

\* the optional tail of rank_pattern after the tier at j (the tier ends at
\* n - 1): \s+(?:I{1,3}|IV|V)?\s*(?:Div\s+(?:I{1,3}|IV|V))?
BareTierAt(chunk, j) ==
    LET tier == TierAt(chunk, j)
        n    == j + Len(tier)
        num  == IF n <= Len(chunk) /\ chunk[n] \in Numerals THEN 1 ELSE 0
        d    == n + num
        cut  == num = 1 /\ DivisionCapture(chunk[n]) # chunk[n]
        div  == IF /\ ~cut
                   /\ d + 1 <= Len(chunk)
                   /\ chunk[d] = "Div"
                   /\ chunk[d + 1] \in Numerals
                THEN 2 ELSE 0
    IN  IF tier # <<>> /\ n <= Len(chunk)
        THEN tier
             \o (IF num = 1 THEN <<DivisionCapture(chunk[n])>> ELSE <<>>)
             \o (IF div = 2 THEN <<"Div", DivisionCapture(chunk[d + 1])>>
                 ELSE <<>>)
        ELSE <<>>

\* lines 76-89: the window fallback
FallbackRank(text, pattern) ==
    LET pos   == Min({i \in 1..Len(text) : text[i] = pattern})
        chunk == Chunk(text, pos, RankWindow)
        mmrAt == {i \in 1..Len(chunk) :
                     /\ i < Len(chunk)
                     /\ chunk[i] = pattern
                     /\ chunk[i + 1] \in DOMAIN RankRatingCapture}
        tiers == {j \in 1..Len(chunk) : BareTierAt(chunk, j) # <<>>}
    IN  [mmr  |-> IF mmrAt = {} THEN 0
                  ELSE IntOf[NoComma(RankRatingCapture[chunk[Min(mmrAt) + 1]])],
         rank |-> IF tiers = {} THEN Unranked
                  ELSE BareTierAt(chunk, Min(tiers))]

\* lines 91-95: the combined match
CombinedRank(text, pattern) ==
    LET i == Min(CombinedStarts(text, pattern))
        j == Min(CombinedEnds(text, i))
    IN  [mmr  |-> IntOf[NoComma(RankRatingCapture[text[i + 1]])],
         rank |-> TierWithDivAt(text, j)]

\* one iteration of the loop of lines 61-107: the entry for a playlist
RankEntry(text, pattern) ==
    IF CombinedStarts(text, pattern) # {}
    THEN CombinedRank(text, pattern)
    ELSE FallbackRank(text, pattern)

\* the entry stored without the test of line 98
StoredAlways(entry) == TRUE

\* `if rank != "Unranked" or mmr > 0`, line 98
Stored(entry) == entry.rank # Unranked \/ entry.mmr > 0

\* extract_ranks: the mapping playlist_name -> {rank, mmr}
RanksOf(text) ==
    LET found == {k \in 1..Len(Playlists) :
                     /\ \E i \in 1..Len(text) : text[i] = Playlists[k][1]
                     /\ Stored(RankEntry(text, Playlists[k][1]))}
    IN  [name \in {Playlists[k][2] : k \in found} |->
            LET k == CHOOSE k \in found : Playlists[k][2] = name
            IN  RankEntry(text, Playlists[k][1])]

----------------------------------------------------------------------------
(* rank_map.normalize_rank_name                                            *)

\* the list `tiers`, lines 33-57: the words of each tier and the name
\* tier.replace(" ", "_") makes of it
RankTiers ==
    << [words |-> <<"supersonic", "legend">>, name |-> "supersonic_legend"],
       [words |-> <<"grand", "champion", "iii">>,
        name |-> "grand_champion_iii"],
       [words |-> <<"grand", "champion", "ii">>,
        name |-> "grand_champion_ii"],
       [words |-> <<"grand", "champion", "i">>, name |-> "grand_champion_i"],
       [words |-> <<"champion", "iii">>, name |-> "champion_iii"],
       [words |-> <<"champion", "ii">>, name |-> "champion_ii"],
       [words |-> <<"champion", "i">>, name |-> "champion_i"],
       [words |-> <<"diamond", "iii">>, name |-> "diamond_iii"],
       [words |-> <<"diamond", "ii">>, name |-> "diamond_ii"],
       [words |-> <<"diamond", "i">>, name |-> "diamond_i"],
       [words |-> <<"platinum", "iii">>, name |-> "platinum_iii"],
       [words |-> <<"platinum", "ii">>, name |-> "platinum_ii"],
       [words |-> <<"platinum", "i">>, name |-> "platinum_i"],
       [words |-> <<"gold", "iii">>, name |-> "gold_iii"],
       [words |-> <<"gold", "ii">>, name |-> "gold_ii"],
       [words |-> <<"gold", "i">>, name |-> "gold_i"],
       [words |-> <<"silver", "iii">>, name |-> "silver_iii"],
       [words |-> <<"silver", "ii">>, name |-> "silver_ii"],
       [words |-> <<"silver", "i">>, name |-> "silver_i"],
       [words |-> <<"bronze", "iii">>, name |-> "bronze_iii"],
       [words |-> <<"bronze", "ii">>, name |-> "bronze_ii"],
       [words |-> <<"bronze", "i">>, name |-> "bronze_i"],
       [words |-> <<"unranked">>, name |-> "unranked"] >>

\* the lowered words each last word of a tier is the beginning of
StartOf ==
    ("i" :> {"i", "ii", "iii", "iv"}) @@ ("ii" :> {"ii", "iii"})
    @@ ("iii" :> {"iii"}) @@ ("legend" :> {"legend"})
    @@ ("unranked" :> {"unranked"})

\* `tier in t`, line 61: the words of the tier occur in t, the last of
\* them as the beginning of a word of t
TierIn(words, t) ==
    \E i \in 1..Len(t) :
        /\ i + Len(words) - 1 <= Len(t)
        /\ \A k \in 1..(Len(words) - 1) : t[i + k - 1] = words[k]
        /\ t[i + Len(words) - 1] \in StartOf[words[Len(words)]]

\* normalize_rank_name, lines 11-66
NormalizeRankName(rank_text) ==
    IF rank_text = <<>> THEN "unranked"
    ELSE LET t    == [i \in 1..Len(rank_text) |-> Lower(rank_text[i])]
             hits == {k \in 1..Len(RankTiers) : TierIn(RankTiers[k].words, t)}
         IN  IF hits = {} THEN "unranked" ELSE RankTiers[Min(hits)].name

----------------------------------------------------------------------------
(* extract_lifetime_stats                                                  *)

\* the words "<Label><value>#<rank>" of the page: the label lowered (the
\* patterns are searched with re.IGNORECASE) and the value group
StatWords ==
    ("Wins2,260#2,449,599" :> <<"wins", "2,260">>)
    @@ ("Goals1,204#77" :> <<"goals", "1,204">>)
    @@ ("goals7#1" :> <<"goals", "7">>)
    @@ ("Saves868#12" :> <<"saves", "868">>)
    @@ ("Goal Shot Ratio48.5#9,633,706" :> <<"goal shot ratio", "48.5">>)
    @@ ("TRN Score1,002.5#3" :> <<"trn score", "1,002.5">>)

\* stat_patterns, lines 313-322: the label each pattern matches, and
\* whether the pattern needs "Lifetime" and whitespace before it
StatPatterns ==
    << <<"Wins", "wins", TRUE>>, <<"Goals", "goals", FALSE>>,
       <<"Assists", "assists", FALSE>>, <<"Saves", "saves", FALSE>>,
       <<"Shots", "shots", FALSE>>, <<"MVPs", "mvps", FALSE>>,
       <<"Goal Shot Ratio", "goal shot ratio", FALSE>>,
       <<"TRN Score", "trn score", FALSE>> >>

\* f"{value}%"
WithPercent == ("48.5" :> "48.5%")

\* where re.search(pattern, full_text, re.IGNORECASE) matches, for the
\* k-th pattern
StatMatches(text, k) ==
    {i \in 1..Len(text) :
        /\ text[i] \in DOMAIN StatWords
        /\ StatWords[text[i]][1] = StatPatterns[k][2]
        /\ StatPatterns[k][3] => (i > 1 /\ Lower(text[i - 1]) = "lifetime")}

\* the value of the last match instead of the first
StatValueLast(text, k) ==
    LET S     == StatMatches(text, k)
        last  == CHOOSE x \in S : \A y \in S : y <= x
        value == StatWords[text[last]][2]
    IN  IF StatPatterns[k][1] = "Goal Shot Ratio" THEN WithPercent[value]
        ELSE value

\* the value without lines 330-331
StatValueRaw(text, k) == StatWords[text[Min(StatMatches(text, k))]][2]

\* lines 328-332: the value stored for the k-th pattern
StatValue(text, k) ==
    LET value == StatWords[text[Min(StatMatches(text, k))]][2]
    IN  IF StatPatterns[k][1] = "Goal Shot Ratio" THEN WithPercent[value]
        ELSE value

\* extract_lifetime_stats: the mapping stat_name -> value
LifetimeOf(text) ==
    LET found == {k \in 1..Len(StatPatterns) : StatMatches(text, k) # {}}
    IN  [name \in {StatPatterns[k][1] : k \in found} |->
            StatValue(text, CHOOSE k \in found : StatPatterns[k][1] = name)]

----------------------------------------------------------------------------
(* The page texts the model reads: runs of blocks as the profile page      *)
(* renders them.                                                           *)

SessStd ==
    <<"Session Overview", "3", "days", "ago", "5", "Wins",
      "Goals / Shots", "4", "/", "9", "Assists", "3", "Saves", "2",
      "MVP (2)", "9", "Matches", "Ranked Standard 3v3", "1,096">>

SessDuel ==
    <<"Session Overview", "3", "Days", "ago",
      "4", "Matches", "Ranked Duel 1v1", "823">>

SessNoMatch == <<"Session Overview", "5", "hours", "ago", "2", "Wins">>

SessWeeks ==
    <<"Session Overview", "2", "weeks", "ago", "1", "Win",
      "4", "Matches", "Ranked Doubles 2v2", "1,308",
      "5", "Matches", "Ranked Standard 3v3", "1,096">>

SessMonths ==
    <<"Session Overview", "2", "months", "ago",
      "4", "Matches", "Ranked Doubles 2v2", "1,308">>

SessHours ==
    <<"Session Overview", "5", "hours", "ago",
      "13", "Matches", "Ranked Duel 3v3", "823">>

SessFar ==
    <<"Session Overview", "1000000000", "days", "ago",
      "1", "Match", "Ranked Duel 1v1", "823">>

SessZero ==
    <<"Session Overview", "1", "day", "ago",
      "0", "Matches", "Ranked Duel 1v1", "823">>

AfterSentinel ==
    <<"Get the Mobile", "4", "Matches", "Ranked Duel 1v1", "823">>

StrayMarker ==
    <<"Session Overview", "recently",
      "9", "Matches", "Ranked Standard 3v3", "1,096">>

RanksBlock ==
    <<"Ranked Doubles 2v2", "1,308", "Div257", "Champion", "III", "Div", "I",
      "Hoops", "823", "Grand", "Champion", "II">>

LifeBlock ==
    <<"Lifetime", "Wins2,260#2,449,599", "Goals1,204#77",
      "Goal Shot Ratio48.5#9,633,706">>

SessQuads ==
    <<"Session Overview", "1", "day", "ago",
      "2", "Matches", "Ranked 4v4 Quads 4v4", "823">>

RankFour ==
    <<"Ranked Standard 3v3", "1,096", "Div257", "Grand", "Champion", "I",
      "Div", "IV">>

RankCut == <<"Snowday", "823", "Platinum", "IV", "Div", "II">>

RankBare == <<"Rumble", "Dropshot", "0">>

LifeLoose == <<"Wins2,260#2,449,599", "goals7#1", "Saves868#12">>

SessRun ==
    <<"Session Overview", "1", "day", "ago", "Saves", "249", "Matches",
      "Ranked Standard 3v3", "1,096">>

SessOld ==
    <<"Session Overview", "375000", "days", "ago",
      "1", "Match", "Ranked Duel 1v1", "823">>

Blocks ==
    <<SessStd, SessDuel, SessNoMatch, SessWeeks, SessMonths, SessHours,
      SessFar, SessZero, AfterSentinel, StrayMarker, RanksBlock, LifeBlock,
      SessQuads, RankFour, RankCut, RankBare, LifeLoose, SessRun, SessOld>>

MaxBlocks == 2

RECURSIVE Concat(_)
Concat(bs) == IF bs = <<>> THEN <<>> ELSE Head(bs) \o Concat(Tail(bs))

\* every run of at most MaxBlocks blocks
ShortTexts ==
    UNION {{Concat([k \in 1..n |-> Blocks[ix[k]]]) :
               ix \in [1..n -> 1..Len(Blocks)]} : n \in 0..MaxBlocks}

\* pages with about MaxSessions sessions: a run of SessDuel, then one block
LongTexts ==
    {Concat([k \in 1..n |-> SessDuel]) \o tail :
        n \in {MaxSessions - 1, MaxSessions},
        tail \in {SessStd, SessNoMatch, SessWeeks, AfterSentinel}}

Texts == ShortTexts \cup LongTexts

\* `now` when an invocation starts
Nows == {<<2025, 11, 15>>, <<2024, 3, 1>>}

\* data/html/overview.html: missing, or holding a page text
NoHtml == [exists |-> FALSE, text |-> <<>>]

HtmlInputs == {NoHtml} \cup {[exists |-> TRUE, text |-> t] : t \in Texts}

----------------------------------------------------------------------------
(* State: two invocations of RLStatsParser.parse_all, the files they read  *)
(* and write, the wall clock, and the dashboard's view of rl_stats.json.   *)

Procs == {"A", "B"}

VARIABLES
    html,             \* html[p]: the overview.html invocation p loads
    file,             \* rl_stats.json (self.output_file)
    clock,            \* the calendar day datetime.now() reports
    ticked,           \* the clock passed midnight since the start
    shown,            \* what load_stats of app.py last displayed
    pc,               \* pc[p]: where invocation p is in parse_all
    soup,             \* overview_soup.get_text(), as words
    overview_data,    \* the rank mapping (later with '__lifetime__')
    session_matches,  \* the findall result of extract_matches
    idx,              \* index of the next session of session_matches[:20]
    sessions,         \* the list `sessions` of extract_matches
    heatmap_data,     \* the defaultdict(int) accumulator
    heatmap_list,     \* the sorted heatmap returned by extract_matches
    lifetime_stats,   \* the mapping returned by extract_lifetime_stats
    output,           \* <<output dict>> once parse_all has combined it
    summary,          \* <<the counts of the "Summary:" printout>>
    ret,              \* what parse_all returned, "raised" for an exception
    nows,             \* nows[p]: the days invocation p read off the clock
    call,             \* a direct call of a Date Normalizer function
    app,              \* the dashboard: Refresh button, workers, signals
    scrape            \* one call of RLTrackerScraper.scrape_all

vars ==
    <<html, file, clock, ticked, shown, pc, soup, overview_data,
      session_matches, idx, sessions, heatmap_data, heatmap_list,
      lifetime_stats, output, summary, ret, nows, call, app, scrape>>

\* the state of the parser and of the files it shares with the dashboard
parse_vars ==
    <<html, file, clock, ticked, shown, pc, soup, overview_data,
      session_matches, idx, sessions, heatmap_data, heatmap_list,
      lifetime_stats, output, summary, ret, nows, call>>

locals ==
    <<soup, overview_data, session_matches, idx, sessions, heatmap_data,
      heatmap_list, lifetime_stats, output, summary>>

NoFile == [exists |-> FALSE, content |-> <<>>, garbage |-> FALSE]

NoCall ==
    [fn |-> "none", phrase |-> <<>>, date_str |-> "", today |-> NoDate,
     done |-> FALSE, result |-> NoDate]

Finished == {"done", "raised"}

\* RLStatsApp after __init__: the button enabled, refresh_worker None
\* (app.py line 466); the mtimes of overview.html and rl_stats.json, 0
\* for a missing file
AppIdle ==
    [btn |-> TRUE, status |-> "", refresh_worker |-> 0, workers |-> <<>>,
     queue |-> <<>>, timers |-> 0, clicks |-> 0,
     html_mtime |-> 0, json_mtime |-> 0]

\* scrape_all not called
NoScrape ==
    [i |-> 0, tried |-> <<>>, log |-> <<>>, cache0 |-> <<>>,
     cache |-> <<>>, writes |-> 0, done |-> FALSE, ret |-> <<>>]

InitLocals ==
    /\ pc = [p \in Procs |-> "idle"]
    /\ soup = [p \in Procs |-> <<>>]
    /\ overview_data = [p \in Procs |-> <<>>]
    /\ session_matches = [p \in Procs |-> <<>>]
    /\ idx = [p \in Procs |-> 1]
    /\ sessions = [p \in Procs |-> <<>>]
    /\ heatmap_data = [p \in Procs |-> <<>>]
    /\ heatmap_list = [p \in Procs |-> <<>>]
    /\ lifetime_stats = [p \in Procs |-> <<>>]
    /\ output = [p \in Procs |-> <<>>]
    /\ summary = [p \in Procs |-> <<>>]
    /\ ret = [p \in Procs |-> "none"]
    /\ nows = [p \in Procs |-> {}]

\* one invocation, "A", of parse_all on a page
Init ==
    /\ \E h \in HtmlInputs : html = [p \in Procs |-> IF p = "A" THEN h ELSE NoHtml]
    /\ clock \in Nows
    /\ ticked = FALSE
    /\ file = NoFile
    /\ shown = [status |-> "none", content |-> <<>>]
    /\ call = NoCall
    /\ InitLocals
    /\ app = AppIdle
    /\ scrape = NoScrape

----------------------------------------------------------------------------
(* parse_all, step by step                                                 *)

\* lines 347-351: load_html returns None for a missing file and parse_all
\* returns False; a BeautifulSoup object is truthy even for an empty page
LoadHtml(p) ==
    /\ pc[p] = "idle"
    /\ IF html[p].exists
       THEN /\ soup' = [soup EXCEPT ![p] = html[p].text]
            /\ pc' = [pc EXCEPT ![p] = "ranks"]
            /\ ret' = ret
       ELSE /\ soup' = soup
            /\ pc' = [pc EXCEPT ![p] = "done"]
            /\ ret' = [ret EXCEPT ![p] = "False"]
    /\ UNCHANGED <<html, file, clock, ticked, shown, overview_data,
                   session_matches, idx, sessions, heatmap_data,
                   heatmap_list, lifetime_stats, output, summary, nows,
                   call, app, scrape>>

\* line 354: overview_data = self.extract_ranks(overview_soup)
ExtractRanks(p) ==
    /\ pc[p] = "ranks"
    /\ overview_data' = [overview_data EXCEPT ![p] = RanksOf(soup[p])]
    /\ pc' = [pc EXCEPT ![p] = "matches"]
    /\ UNCHANGED <<html, file, clock, ticked, shown, soup, session_matches,
                   idx, sessions, heatmap_data, heatmap_list,
                   lifetime_stats, output, ret, nows, call, summary, app, scrape>>

\* the accumulators kept across calls instead of made per call
SharedAccumulators(p) ==
    LET q == CHOOSE q \in Procs : q # p
    IN  [sessions |-> sessions[q], heatmap_data |-> heatmap_data[q]]

\* lines 115-116: `sessions = []`, `heatmap_data = defaultdict(int)`,
\* locals of the call
NewAccumulators(p) == [sessions |-> <<>>, heatmap_data |-> <<>>]

\* line 357 into extract_matches, lines 115-127: fresh accumulators and the
\* findall over the page text
BeginMatches(p) ==
    /\ pc[p] = "matches"
    /\ sessions' = [sessions EXCEPT ![p] = NewAccumulators(p).sessions]
    /\ heatmap_data' =
           [heatmap_data EXCEPT ![p] = NewAccumulators(p).heatmap_data]
    /\ session_matches' =
           [session_matches EXCEPT ![p] = FindSessions(soup[p], 1)]
    /\ idx' = [idx EXCEPT ![p] = 1]
    /\ pc' = [pc EXCEPT ![p] = "loop"]
    /\ UNCHANGED <<html, file, clock, ticked, shown, soup, overview_data,
                   heatmap_list, lifetime_stats, output, summary, ret, nows,
                   call, app, scrape>>

\* the loop without the slice of line 129
ExaminedAll(found) == found

\* session_matches[:20]
Examined(found) == SubSeq(found, 1, Min({Len(found), MaxSessions}))

\* lines 129-204: one iteration of the loop over session_matches[:20]
ProcessSession(p) ==
    /\ pc[p] = "loop"
    /\ idx[p] <= Len(Examined(session_matches[p]))
    /\ LET session == BuildSession(session_matches[p][idx[p]], clock)
       IN  /\ heatmap_data' =
                 [heatmap_data EXCEPT ![p] = UpdateHeatmap(@, session)]
           /\ sessions' = [sessions EXCEPT ![p] = AppendSession(@, session)]
    /\ idx' = [idx EXCEPT ![p] = @ + 1]
    /\ nows' = [nows EXCEPT ![p] = @ \cup {clock}]
    /\ UNCHANGED <<html, file, clock, ticked, shown, pc, soup,
                   overview_data, session_matches, heatmap_list,
                   lifetime_stats, output, ret, call, summary, app, scrape>>

\* lines 206-212: the loop is over; the accumulator becomes the sorted list
EndMatches(p) ==
    /\ pc[p] = "loop"
    /\ idx[p] > Len(Examined(session_matches[p]))
    /\ \E pad \in BOOLEAN :
          heatmap_list' =
              [heatmap_list EXCEPT ![p] = SortedItems(heatmap_data[p], pad)]
    /\ pc' = [pc EXCEPT ![p] = "lifetime"]
    /\ UNCHANGED <<html, file, clock, ticked, shown, soup, overview_data,
                   session_matches, idx, sessions, heatmap_data,
                   lifetime_stats, output, ret, nows, call, summary, app, scrape>>

\* line 360: lifetime_stats = self.extract_lifetime_stats(overview_soup)
ExtractLifetime(p) ==
    /\ pc[p] = "lifetime"
    /\ lifetime_stats' = [lifetime_stats EXCEPT ![p] = LifetimeOf(soup[p])]
    /\ pc' = [pc EXCEPT ![p] = "combine"]
    /\ UNCHANGED <<html, file, clock, ticked, shown, soup, overview_data,
                   session_matches, idx, sessions, heatmap_data,
                   heatmap_list, output, ret, nows, call, summary, app, scrape>>

\* lines 361-362
WithLifetime(ranks, lifetime) ==
    IF DOMAIN lifetime # {} THEN ("__lifetime__" :> lifetime) @@ ranks
    ELSE ranks

\* lines 368-374: the output dict
OutputOf(now, overview, sess, heatmap) ==
    [timestamp        |-> now,
     overview         |-> overview,
     sessions         |-> sess,
     activity_heatmap |-> heatmap,
     performance      |-> <<>>]

\* lines 361-374
Combine(p) ==
    /\ pc[p] = "combine"
    /\ overview_data' =
           [overview_data EXCEPT ![p] = WithLifetime(@, lifetime_stats[p])]
    /\ output' =
           [output EXCEPT ![p] =
               <<OutputOf(clock, overview_data'[p], sessions[p],
                          heatmap_list[p])>>]
    /\ pc' = [pc EXCEPT ![p] = "save"]
    /\ UNCHANGED <<html, file, clock, ticked, shown, soup, session_matches,
                   idx, sessions, heatmap_data, heatmap_list,
                   lifetime_stats, ret, nows, call, summary, app, scrape>>

\* line 378: open(self.output_file, 'w') truncates the file; when it
\* raises, lines 397-401 return False
SaveOpen(p) ==
    /\ pc[p] = "save"
    /\ \/ /\ file' = [exists |-> TRUE, content |-> <<>>, garbage |-> FALSE]
          /\ pc' = [pc EXCEPT ![p] = "dump"]
          /\ ret' = ret
       \/ /\ file' = file
          /\ pc' = [pc EXCEPT ![p] = "done"]
          /\ ret' = [ret EXCEPT ![p] = "False"]
    /\ UNCHANGED <<html, clock, ticked, shown, soup, overview_data,
                   session_matches, idx, sessions, heatmap_data,
                   heatmap_list, lifetime_stats, output, summary, nows,
                   call, app, scrape>>

\* what a writer that started at offset 0 leaves in a file another writer
\* has filled since this one truncated it: its own bytes, followed or not
\* by the rest of the other's
Overwritten(old, mine) ==
    {[exists |-> TRUE, content |-> mine, garbage |-> g] :
        g \in IF old.content = <<>> THEN {FALSE} ELSE BOOLEAN}

RECURSIVE SumOfSessions(_)
\* sum(sum(m['count'] for m in s.get('matches', [])) for s in sessions_data)
SumOfSessions(sessions_data) ==
    IF sessions_data = <<>> THEN 0
    ELSE SumCounts(Head(sessions_data).matches)
         + SumOfSessions(Tail(sessions_data))

\* lines 384-392: the counts printed under "Summary:"; "Total Matches" is
\* printed only `if sessions_data`
SummaryOf(overview, sessions_data, heatmap, performance) ==
    [playlists     |-> Cardinality(DOMAIN overview),
     sessions      |-> Len(sessions_data),
     heatmap_days  |-> Len(heatmap),
     performance   |-> Len(performance),
     total_matches |-> IF sessions_data # <<>>
                       THEN <<SumOfSessions(sessions_data)>> ELSE <<>>]

\* lines 379-395: json.dump, the file closed, the summary printed, return
\* True
SaveDump(p) ==
    /\ pc[p] = "dump"
    /\ file' \in Overwritten(file, output[p])
    /\ summary' = [summary EXCEPT ![p] =
                      <<SummaryOf(overview_data[p], sessions[p],
                                  heatmap_list[p], <<>>)>>]
    /\ pc' = [pc EXCEPT ![p] = "done"]
    /\ ret' = [ret EXCEPT ![p] = "True"]
    /\ UNCHANGED <<html, clock, ticked, shown, soup, overview_data,
                   session_matches, idx, sessions, heatmap_data,
                   heatmap_list, lifetime_stats, output, nows, call, app, scrape>>

\* An exception raised in an extractor outside its per-item try blocks
\* (soup.get_text(), re.findall, print: lines 39-46, 114-127, 303-309).
\* parse_all calls the extractors with no handler (lines 354-360), so the
\* exception leaves parse_all.
ExtractorRaises(p) ==
    /\ pc[p] \in {"ranks", "matches", "lifetime"}
    /\ pc' = [pc EXCEPT ![p] = "raised"]
    /\ ret' = [ret EXCEPT ![p] = "raised"]
    /\ UNCHANGED <<html, file, clock, ticked, shown, locals, nows, call, app, scrape>>

\* the wall clock passes midnight while some invocation is in the loop
\* that reads it
Tick ==
    /\ ~ticked
    /\ \E p \in Procs : pc[p] = "loop"
    /\ clock' = NextDay(clock)
    /\ ticked' = TRUE
    /\ UNCHANGED <<html, file, shown, pc, locals, ret, nows, call, app, scrape>>

Step(p) ==
    \/ LoadHtml(p)
    \/ ExtractRanks(p)
    \/ BeginMatches(p)
    \/ ProcessSession(p)
    \/ EndMatches(p)
    \/ ExtractLifetime(p)
    \/ Combine(p)
    \/ SaveOpen(p)
    \/ SaveDump(p)
    \/ ExtractorRaises(p)

Next ==
    \/ Step("A")
    \/ Tick

Spec == Init /\ [][Next]_vars

----------------------------------------------------------------------------
(* Two invocations of parse_all at once, each on its own page, both with   *)
(* the default output_file, and the dashboard reading that file on its     *)
(* timer (app.py, lines 379-382).                                          *)

TwoTexts == {<<>>, SessStd, SessDuel \o SessNoMatch, RanksBlock \o LifeBlock}

TwoInputs == {NoHtml} \cup {[exists |-> TRUE, text |-> t] : t \in TwoTexts}

InitTwo ==
    /\ html \in [Procs -> TwoInputs]
    /\ clock = <<2025, 11, 15>>
    /\ ticked = FALSE
    /\ file = NoFile
    /\ shown = [status |-> "none", content |-> <<>>]
    /\ call = NoCall
    /\ InitLocals
    /\ app = AppIdle
    /\ scrape = NoScrape

\* json.load(f) of app.py line 555: the parsed document, or <<>> when it
\* raises (an empty or a garbled file)
JsonLoad(f) == IF f.content = <<>> \/ f.garbage THEN <<>> ELSE f.content

\* what load_stats puts on the screen, app.py lines 547-560
StatsShown(f) ==
    IF ~f.exists THEN [status |-> "nodata", content |-> <<>>]
    ELSE IF JsonLoad(f) = <<>>
    THEN [status |-> "error", content |-> <<>>]
    ELSE [status |-> "stats", content |-> JsonLoad(f)]

\* load_stats on the timer
LoadStats ==
    /\ shown' = StatsShown(file)
    /\ UNCHANGED <<html, file, clock, ticked, pc, locals, ret, nows, call, app, scrape>>

NextTwo ==
    \/ \E p \in Procs : Step(p)
    \/ Tick
    \/ LoadStats

SpecTwo == InitTwo /\ [][NextTwo]_vars

----------------------------------------------------------------------------
(* The Date Normalizer called directly, on any phrase.                     *)

PhraseNumbers == {"0", "1", "2", "3", "5", "13", "1000000000"}

PhraseUnits ==
    {"hour", "hours", "day", "days", "Days", "week", "weeks", "month",
     "months", "minutes"}

Phrases ==
    {<<n, u, "ago">> : n \in PhraseNumbers, u \in PhraseUnits}
    \cup {<<"Yesterday">>, <<"today">>, <<"just", "now">>, <<"3">>,
          <<"days", "ago">>, <<>>}

DateStrings ==
    {"11/15/2025", "03/04/2025", "2025-11-15", " 2025-11-15 ", "15/11/2025",
     "Nov 15, 2025", "November 15, 2025", "May 5, 2025", "3 days ago",
     "2025/11/15", ""}

DateNows ==
    {<<2025, 11, 15>>, <<2024, 3, 1>>, <<2025, 1, 1>>, <<2024, 12, 31>>,
     <<2000, 3, 1>>, <<1900, 3, 1>>, <<1, 1, 3>>}

InitDate ==
    /\ \/ \E ph \in Phrases, d \in DateNows :
             call = [fn |-> "relative", phrase |-> ph, date_str |-> "",
                     today |-> d, done |-> FALSE, result |-> NoDate]
       \/ \E ds \in DateStrings, d \in DateNows :
             call = [fn |-> "absolute", phrase |-> <<>>, date_str |-> ds,
                     today |-> d, done |-> FALSE, result |-> NoDate]
    /\ html = [p \in Procs |-> NoHtml]
    /\ clock \in Nows
    /\ ticked = FALSE
    /\ file = NoFile
    /\ shown = [status |-> "none", content |-> <<>>]
    /\ InitLocals
    /\ app = AppIdle
    /\ scrape = NoScrape

NormalizeRelative ==
    /\ call.fn = "relative"
    /\ ~call.done
    /\ call' = [call EXCEPT !.done = TRUE,
                            !.result = ParseRelativeDate(call.phrase, call.today)]
    /\ UNCHANGED <<html, file, clock, ticked, shown, pc, locals, ret, nows, app, scrape>>

NormalizeAbsolute ==
    /\ call.fn = "absolute"
    /\ ~call.done
    /\ call' = [call EXCEPT !.done = TRUE,
                            !.result = ParseAbsoluteDate(call.date_str)]
    /\ UNCHANGED <<html, file, clock, ticked, shown, pc, locals, ret, nows, app, scrape>>

NextDate ==
    \/ NormalizeRelative
    \/ NormalizeAbsolute

SpecDate == InitDate /\ [][NextDate]_vars

----------------------------------------------------------------------------
(* parse_all on pages of rank tables, and normalize_rank_name applied to   *)
(* a tier it recovered.                                                    *)

RankBlocks == <<RanksBlock, RankFour, RankCut, RankBare, SessStd, LifeBlock>>

RankTexts ==
    UNION {{Concat([k \in 1..n |-> RankBlocks[ix[k]]]) :
               ix \in [1..n -> 1..Len(RankBlocks)]} : n \in 0..MaxBlocks}

InitRank ==
    /\ \E h \in {NoHtml} \cup {[exists |-> TRUE, text |-> t] : t \in RankTexts} :
          html = [p \in Procs |-> IF p = "A" THEN h ELSE NoHtml]
    /\ clock = <<2025, 11, 15>>
    /\ ticked = FALSE
    /\ file = NoFile
    /\ shown = [status |-> "none", content |-> <<>>]
    /\ call = NoCall
    /\ InitLocals
    /\ app = AppIdle
    /\ scrape = NoScrape

\* normalize_rank_name(rank) for the rank of an entry of the mapping
NormalizeRank ==
    /\ call.fn = "none"
    /\ \E p \in Procs :
          \E name \in DOMAIN overview_data[p] \ {"__lifetime__"} :
              call' = [fn |-> "normalize",
                       phrase |-> overview_data[p][name].rank,
                       date_str |-> "", today |-> NoDate, done |-> TRUE,
                       result |->
                           <<NormalizeRankName(overview_data[p][name].rank)>>]
    /\ UNCHANGED <<html, file, clock, ticked, shown, pc, locals, ret, nows, app, scrape>>

NextRank ==
    \/ Step("A")
    \/ Tick
    \/ NormalizeRank

SpecRank == InitRank /\ [][NextRank]_vars

----------------------------------------------------------------------------
(* The dashboard's refresh: RLStatsApp.refresh_data, RefreshWorker.run in   *)
(* its thread, and on_refresh_complete in the main thread (app.py).        *)

MaxClicks == 2

\* a RefreshWorker after start(): run() at its first step, the mtimes not
\* read yet, the scraper not run, nothing emitted
NewWorker ==
    [pc |-> "check", html_before |-> 0, json_before |-> 0,
     ran |-> [exit |-> "none", html |-> FALSE, json |-> FALSE],
     emitted |-> 0]

\* one run of scraper_cdp_auto.py under subprocess.run(timeout=180): how
\* it ended and which files it wrote. main() ignores what run_once()
\* returns, so the exit code is 0 unless the process crashes; parse_all
\* runs only after scrape_page has saved overview.html.
ScraperRuns ==
    {r \in [exit : {"0", "1", "timeout"}, html : BOOLEAN, json : BOOLEAN] :
        r.json => r.html}

\* refresh_data without its guard
NeverRefreshing(a) == FALSE

\* QThread.isRunning() of self.refresh_worker, with the None test of line 565
AlreadyRefreshing(a) ==
    /\ a.refresh_worker # 0
    /\ a.workers[a.refresh_worker].pc # "finished"

\* the TimeoutExpired handler without its emit
EmitUnlessTimeout(a, w, success, message) ==
    IF message = "Scraper timeout (3 min)"
    THEN [a EXCEPT !.workers[w].pc = "return"]
    ELSE [a EXCEPT !.queue = Append(@, [worker |-> w, success |-> success,
                                         message |-> message]),
                   !.workers[w].emitted = @ + 1,
                   !.workers[w].pc = "return"]

\* self.finished.emit(success, message) followed by the end of run(): the
\* signal is queued for the main thread
Emit(a, w, success, message) ==
    [a EXCEPT !.queue = Append(@, [worker |-> w, success |-> success,
                                   message |-> message]),
              !.workers[w].emitted = @ + 1,
              !.workers[w].pc = "return"]

\* refresh_data, lines 562-580; a disabled button sends no clicked signal
RefreshData ==
    /\ app.btn
    /\ app.clicks < MaxClicks
    /\ app' =
          IF AlreadyRefreshing(app)
          THEN [app EXCEPT !.status = "Already refreshing...",
                           !.clicks = @ + 1]
          ELSE [app EXCEPT !.btn = FALSE,
                           !.status = "Downloading HTML from RL Tracker...",
                           !.workers = Append(@, NewWorker),
                           !.refresh_worker = Len(app.workers) + 1,
                           !.clicks = @ + 1]
    /\ UNCHANGED <<parse_vars, scrape>>

\* run(), lines 172-183: the browser answers on its debugging port, or
\* start_browser starts it, or start_browser raises
CheckBrowser(w) ==
    /\ app.workers[w].pc = "check"
    /\ \/ app' = [app EXCEPT !.workers[w].pc = "stat"]
       \/ app' = Emit(app, w, FALSE, "Failed to start browser")
    /\ UNCHANGED <<parse_vars, scrape>>

\* run(), lines 186-191: the mtimes before scraping
StatBefore(w) ==
    /\ app.workers[w].pc = "stat"
    /\ app' = [app EXCEPT !.workers[w].pc = "scrape",
                          !.workers[w].html_before = app.html_mtime,
                          !.workers[w].json_before = app.json_mtime]
    /\ UNCHANGED <<parse_vars, scrape>>

\* run(), lines 207-232 and 270-272: the scraper process runs and writes
\* its files; a timeout or an exit code other than 0 ends run()
RunScraper(w) ==
    /\ app.workers[w].pc = "scrape"
    /\ \E r \in ScraperRuns :
          LET wrote == [app EXCEPT
                           !.workers[w].ran = r,
                           !.html_mtime = IF r.html THEN @ + 1 ELSE @,
                           !.json_mtime = IF r.json THEN @ + 1 ELSE @]
          IN  /\ app' =
                    IF r.exit = "timeout"
                    THEN Emit(wrote, w, FALSE, "Scraper timeout (3 min)")
                    ELSE IF r.exit # "0"
                    THEN Emit(wrote, w, FALSE, "Scraper failed")
                    ELSE [wrote EXCEPT !.workers[w].pc = "verify"]
              /\ file' =
                    IF r.json
                    THEN [exists |-> TRUE, garbage |-> FALSE,
                          content |-> <<"stats", app.json_mtime + 1>>]
                    ELSE file
    /\ UNCHANGED <<html, clock, ticked, shown, pc, locals, ret, nows, call,
                   scrape>>

\* `if not (html_updated or json_updated)`, line 261
FilesUpdated(html_updated, json_updated) == html_updated \/ json_updated

\* run(), lines 239-268: the mtimes after scraping, and the verdict
Verify(w) ==
    /\ app.workers[w].pc = "verify"
    /\ LET html_updated == app.html_mtime > app.workers[w].html_before
           json_updated == app.json_mtime > app.workers[w].json_before
       IN  app' =
              IF ~FilesUpdated(html_updated, json_updated)
              THEN Emit(app, w, FALSE, "Files were not updated!")
              ELSE Emit(app, w, TRUE, "Stats updated successfully!")
    /\ UNCHANGED <<parse_vars, scrape>>

\* run(), lines 273-277: any other exception raised inside the try
Unexpected(w) ==
    /\ app.workers[w].pc \in {"check", "stat", "scrape", "verify"}
    /\ app' = Emit(app, w, FALSE, "Error")
    /\ UNCHANGED <<parse_vars, scrape>>

\* run() has returned and the thread ends: isRunning() becomes False
ThreadExit(w) ==
    /\ app.workers[w].pc = "return"
    /\ app' = [app EXCEPT !.workers[w].pc = "finished"]
    /\ UNCHANGED <<parse_vars, scrape>>

\* on_refresh_complete, lines 582-600, for the oldest queued signal
OnRefreshComplete ==
    /\ app.queue # <<>>
    /\ LET sig == Head(app.queue)
       IN  /\ app' = [app EXCEPT
                         !.queue = Tail(@),
                         !.btn = TRUE,
                         !.status = sig.message,
                         !.timers = IF sig.success THEN @ + 1 ELSE @]
           /\ shown' = IF sig.success THEN StatsShown(file) ELSE shown
    /\ UNCHANGED <<html, file, clock, ticked, pc, locals, ret, nows, call,
                   scrape>>

\* QTimer.singleShot(3000, lambda: self.status_label.setText("")), line 596
ClearStatus ==
    /\ app.timers > 0
    /\ app' = [app EXCEPT !.timers = @ - 1, !.status = ""]
    /\ UNCHANGED <<parse_vars, scrape>>

\* a step of the thread of worker w
WorkerStep(w) ==
    \/ CheckBrowser(w)
    \/ StatBefore(w)
    \/ RunScraper(w)
    \/ Verify(w)
    \/ Unexpected(w)
    \/ ThreadExit(w)

Workers == 1..MaxClicks

InitApp ==
    /\ \E h, j \in 0..1 :
          /\ app = [AppIdle EXCEPT !.html_mtime = h, !.json_mtime = j]
          /\ file = IF j = 0 THEN NoFile
                    ELSE [exists |-> TRUE, garbage |-> FALSE,
                          content |-> <<"stats", j>>]
    /\ html = [p \in Procs |-> NoHtml]
    /\ clock = <<2025, 11, 15>>
    /\ ticked = FALSE
    /\ shown = StatsShown(file)
    /\ call = NoCall
    /\ InitLocals
    /\ scrape = NoScrape

NextApp ==
    \/ RefreshData
    \/ \E w \in Workers : w <= Len(app.workers) /\ WorkerStep(w)
    \/ OnRefreshComplete
    \/ ClearStatus
    \/ LoadStats

\* the OS schedules every thread that can run, and the main thread's event
\* loop delivers every queued signal
SpecApp ==
    /\ InitApp
    /\ [][NextApp]_vars
    /\ \A w \in Workers : WF_vars(w <= Len(app.workers) /\ WorkerStep(w))
    /\ WF_vars(OnRefreshComplete)

----------------------------------------------------------------------------
(* RLTrackerScraper.scrape_all and scrape_with_strategy (scraper.py).      *)

\* the names of the list `strategies`, lines 580-586
Strategies ==
    <<"Enhanced Stealth (Headless)", "Slow Stealth (Headless)",
      "Visible Browser", "Visible Browser (Slow)",
      "Persistent Session (Visible)">>

\* what one strategy's browser session brings back: an exception inside
\* the try, or the three families, each empty (FALSE) or not
PageResults ==
    [raised : {TRUE}, overview : {FALSE}, recent_matches : {FALSE},
     performance : {FALSE}]
    \cup [raised : {FALSE}, overview : BOOLEAN, recent_matches : BOOLEAN,
          performance : BOOLEAN]

\* scrape_with_strategy, lines 283-305: the data dict, or None (<<>>) when
\* has_data is False or an exception was caught
ScrapeWithStrategy(pages) ==
    IF pages.raised THEN <<>>
    ELSE IF pages.overview \/ pages.recent_matches \/ pages.performance
    THEN <<[overview |-> pages.overview,
            recent_matches |-> pages.recent_matches,
            performance |-> pages.performance]>>
    ELSE <<>>

\* `if data and (data['overview'] or data['recent_matches'] or
\* data['performance'])`, line 591
Usable(data) ==
    /\ data # <<>>
    /\ data[1].overview \/ data[1].recent_matches \/ data[1].performance

\* the cache file opened with 'a'
SaveCacheAppend(cache, data) == cache \o data

\* open(self.cache_path, 'w') and json.dump(data, f), lines 593-594: the
\* documents in the file afterwards
SaveCache(cache, data) == data

\* one iteration of the loop of lines 588-602
TryStrategy ==
    /\ scrape.i \in 1..Len(Strategies)
    /\ ~scrape.done
    /\ \E pages \in PageResults :
          LET data == ScrapeWithStrategy(pages)
              next == [scrape EXCEPT !.tried = Append(@, Strategies[scrape.i])]
          IN  scrape' =
                 IF Usable(data)
                 THEN [next EXCEPT !.cache = SaveCache(@, data),
                                   !.writes = @ + 1,
                                   !.done = TRUE,
                                   !.ret = data]
                 ELSE [next EXCEPT !.log = Append(@, IF pages.raised
                                                     THEN "error"
                                                     ELSE "empty"),
                                   !.i = @ + 1]
    /\ UNCHANGED <<parse_vars, app>>

\* lines 604-613: the list is exhausted, scrape_all returns None
AllFailed ==
    /\ scrape.i = Len(Strategies) + 1
    /\ ~scrape.done
    /\ scrape' = [scrape EXCEPT !.done = TRUE, !.ret = <<>>]
    /\ UNCHANGED <<parse_vars, app>>

\* the cache file before the call: missing, or an older document
OldCaches ==
    {<<>>, <<[overview |-> TRUE, recent_matches |-> TRUE,
              performance |-> TRUE]>>}

InitScrape ==
    /\ \E c \in OldCaches :
          scrape = [NoScrape EXCEPT !.i = 1, !.cache = c, !.cache0 = c]
    /\ html = [p \in Procs |-> NoHtml]
    /\ clock = <<2025, 11, 15>>
    /\ ticked = FALSE
    /\ file = NoFile
    /\ shown = [status |-> "none", content |-> <<>>]
    /\ call = NoCall
    /\ InitLocals
    /\ app = AppIdle

NextScrape ==
    \/ TryStrategy
    \/ AllFailed

SpecScrape == InitScrape /\ [][NextScrape]_vars

----------------------------------------------------------------------------
(* rank_icon_path (rank_map.py) on a rank text and a directory of icons.   *)

\* an icon file: <<"Champion", "2">> is Champion2_rank_icon.webp
SupersonicIcon == <<"Supersonic_Legend", "">>

\* the list `ranks`, line 124, with rank.capitalize()
IconRanks ==
    << <<"champion", "Champion">>, <<"diamond", "Diamond">>,
       <<"platinum", "Platinum">>, <<"gold", "Gold">>,
       <<"silver", "Silver">>, <<"bronze", "Bronze">> >>

\* (iii|ii|i(?!\w)) on the word after the rank name, and the number
\* roman_patterns gives it
TierCapture == ("iii" :> "3") @@ ("ii" :> "2") @@ ("i" :> "1")

\* re.search(rf'{words}\s+(iii|ii|i(?!\w))', rank_lower): the number of
\* the captured numeral, or ""
TierNumber(t, words) ==
    LET n  == Len(words)
        at == FirstIndex([i \in 1..Len(t) |->
                             /\ i + n <= Len(t)
                             /\ SubSeq(t, i, i + n - 1) = words
                             /\ t[i + n] \in DOMAIN TierCapture],
                         1, Len(t))
    IN  IF at = 0 THEN "" ELSE TierCapture[t[at + n]]

\* `words in rank_lower`
NamedIn(t, words) ==
    \E i \in 1..Len(t) :
        i + Len(words) - 1 <= Len(t)
            /\ SubSeq(t, i, i + Len(words) - 1) = words

\* lines 123-141: the regular ranks, tried when no icon was returned before
RegularIcon(t, icons) ==
    LET hits == {k \in 1..Len(IconRanks) : NamedIn(t, <<IconRanks[k][1]>>)}
    IN  IF hits = {} THEN <<>>
        ELSE LET rank == IconRanks[Min(hits)]
                 num  == TierNumber(t, <<rank[1]>>)
             IN  IF num # "" /\ <<rank[2], num>> \in icons
                 THEN <<rank[2], num>> ELSE <<>>

\* rank_icon_path, lines 69-144: the icon, or <<>> for None
RankIconPath(rank_text, icons) ==
    LET t == LowerPhrase(rank_text)
        gc == TierNumber(t, <<"grand", "champion">>)
    IN  IF rank_text = <<>> \/ t = <<"unranked">> THEN <<>>
        ELSE IF NamedIn(t, <<"supersonic", "legend">>)
                /\ SupersonicIcon \in icons
        THEN SupersonicIcon
        ELSE IF NamedIn(t, <<"grand", "champion">>) /\ gc # ""
                /\ <<"Grand_champion", gc>> \in icons
        THEN <<"Grand_champion", gc>>
        ELSE RegularIcon(t, icons)

MaxWords == 3

IconWords == {"Grand", "Champion", "Diamond", "I", "II", "Div"}

IconTexts ==
    UNION {[1..n -> IconWords] : n \in 0..MaxWords}
    \cup {<<"Unranked">>, <<"Supersonic", "Legend">>,
          <<"Grand", "Champion", "III", "Div", "I">>,
          <<"Champion", "IV", "Div", "II">>}

IconFiles ==
    {SupersonicIcon, <<"Grand_champion", "2">>, <<"Champion", "2">>,
     <<"Champion", "1">>, <<"Diamond", "2">>}

InitIcon ==
    /\ \E text \in IconTexts, icons \in SUBSET IconFiles :
          call = [fn |-> "icon", phrase |-> text, icons |-> icons,
                  done |-> FALSE, result |-> <<>>]
    /\ html = [p \in Procs |-> NoHtml]
    /\ clock = <<2025, 11, 15>>
    /\ ticked = FALSE
    /\ file = NoFile
    /\ shown = [status |-> "none", content |-> <<>>]
    /\ InitLocals
    /\ app = AppIdle
    /\ scrape = NoScrape

IconPath ==
    /\ call.fn = "icon"
    /\ ~call.done
    /\ call' = [call EXCEPT !.done = TRUE,
                            !.result = RankIconPath(call.phrase, call.icons)]
    /\ UNCHANGED <<html, file, clock, ticked, shown, pc, locals, ret, nows,
                   app, scrape>>

NextIcon == IconPath

SpecIcon == InitIcon /\ [][NextIcon]_vars

----------------------------------------------------------------------------
(* Properties                                                              *)

\* extract_matches has returned to parse_all
Returned(p) == pc[p] \in {"lifetime", "combine", "save", "dump", "done"}

RECURSIVE TotalMatches(_)
\* the match counts of a list of sessions, added up
TotalMatches(sess) ==
    IF sess = <<>> THEN 0
    ELSE SumCounts(Head(sess).matches) + TotalMatches(Tail(sess))

RECURSIVE TotalCount(_)
\* the counts of a list of heatmap entries, added up
TotalCount(entries) ==
    IF entries = <<>> THEN 0
    ELSE Head(entries).count + TotalCount(Tail(entries))

SessionsOn(sess, d) == SelectSeq(sess, LAMBDA x : x.date = d)

EntriesOn(entries, d) == SelectSeq(entries, LAMBDA e : e.date = d)

Dated(sess) == SelectSeq(sess, LAMBDA x : x.date # NoDate)

DatesSeen(p) ==
    ({sessions[p][k].date : k \in 1..Len(sessions[p])}
       \cup {heatmap_list[p][k].date : k \in 1..Len(heatmap_list[p])})
    \ {NoDate}

HasTally(block) == FindMatchCounts(block.details, 1) # <<>>

\* C1: once extract_matches has returned, for every date d the heatmap has
\* at most one entry for d, and its count (0 when there is none) is the sum
\* of the match counts of the retained sessions whose date is d.
C1_HeatmapIsSessionFold ==
    \A p \in Procs :
        Returned(p) =>
            \A d \in DatesSeen(p) :
                LET es == EntriesOn(heatmap_list[p], d)
                IN  /\ Len(es) <= 1
                    /\ TotalCount(es) = TotalMatches(SessionsOn(sessions[p], d))

\* C1 witness: two sessions of one date, 9 and 4 matches, one entry of 13
C1_Witness ==
    \E p \in Procs :
        /\ Returned(p)
        /\ \E k \in 1..Len(heatmap_list[p]) :
              LET on == SessionsOn(sessions[p], heatmap_list[p][k].date)
              IN  /\ heatmap_list[p][k].count = 13
                  /\ Len(on) = 2
                  /\ SumCounts(on[1].matches) = 9
                  /\ SumCounts(on[2].matches) = 4

\* C2: once extract_matches has returned, an examined session block is in
\* the session list exactly if it produced a match tally: every listed
\* session has a tally, there are as many sessions as examined blocks with
\* one, and the heatmap holds only the matches of listed sessions.
C2_RetainedIffTally ==
    \A p \in Procs :
        Returned(p) =>
            LET blocks == Examined(session_matches[p])
                listed(b) ==
                    \E k \in 1..Len(sessions[p]) :
                        /\ sessions[p][k].time_ago = b.time_ago
                        /\ sessions[p][k].matches =
                               MatchTallies(FindMatchCounts(b.details, 1))
            IN  /\ \A i \in 1..Len(blocks) :
                       HasTally(blocks[i]) <=> listed(blocks[i])
                /\ \A k \in 1..Len(sessions[p]) : sessions[p][k].matches # <<>>
                /\ Len(sessions[p]) =
                       Cardinality({i \in 1..Len(blocks) : HasTally(blocks[i])})
                /\ TotalCount(heatmap_list[p]) =
                       TotalMatches(Dated(sessions[p]))

\* C2 witness: a block with a time phrase and a win count and no tally was
\* examined and left out, next to a block that was kept
C2_Witness ==
    \E p \in Procs :
        /\ Returned(p)
        /\ Len(sessions[p]) >= 1
        /\ \E i \in 1..Len(Examined(session_matches[p])) :
              /\ ~HasTally(session_matches[p][i])
              /\ WinsCapture(session_matches[p][i].details) # ""

\* C3: an exception raised by one extractor never leaves parse_all.
C3_ExtractorErrorContained == \A p \in Procs : ret[p] # "raised"

\* the four families of an output dict are all empty
AllEmpty(o) ==
    /\ DOMAIN o.overview = {}
    /\ o.sessions = <<>>
    /\ o.activity_heatmap = <<>>

\* C4: every invocation that has ended has returned a result, raising
\* nothing; for a missing or an empty page the result has all families
\* empty.
C4_AlwaysAResult ==
    \A p \in Procs :
        pc[p] \in Finished =>
            /\ ret[p] # "raised"
            /\ output[p] # <<>>
            /\ (~html[p].exists \/ html[p].text = <<>>) => AllEmpty(output[p][1])

\* C5: two invocations that read the same page and the same `now` produce
\* the same ranks, sessions, heatmap and lifetime stats.
C5_SameInputSameResult ==
    (/\ \A p \in Procs : output[p] # <<>>
     /\ html["A"] = html["B"]
     /\ Cardinality(nows["A"] \cup nows["B"]) <= 1)
    => /\ output["A"][1].overview = output["B"][1].overview
       /\ output["A"][1].sessions = output["B"][1].sessions
       /\ output["A"][1].activity_heatmap = output["B"][1].activity_heatmap
       /\ output["A"][1].performance = output["B"][1].performance

\* C5 witness: both invocations combined a result with sessions, a rank and
\* a heatmap entry from the same page under the same `now`
C5_Witness ==
    /\ \A p \in Procs : output[p] # <<>>
    /\ html["A"] = html["B"]
    /\ Cardinality(nows["A"] \cup nows["B"]) = 1
    /\ output["A"][1].sessions # <<>>
    /\ output["A"][1].activity_heatmap # <<>>
    /\ DOMAIN output["A"][1].overview # {}

\* C6: no state is shared between concurrent invocations: the dashboard
\* never reads a partly written rl_stats.json, and no invocation leaves
\* another's bytes in the file it saved.
C6_NoSharedState ==
    /\ shown.status # "error"
    /\ ~file.garbage

\* C7: the sessions returned are those of the first MaxSessions blocks of
\* the page, in the order of the page; a later block adds no session and
\* no heatmap count.
C7_FirstTwentyInOrder ==
    \A p \in Procs :
        Returned(p) =>
            LET found == session_matches[p]
                n     == IF Len(found) < MaxSessions THEN Len(found)
                         ELSE MaxSessions
                kept  == SelectSeq(SubSeq(found, 1, n), HasTally)
            IN  /\ Len(sessions[p]) <= MaxSessions
                /\ Len(sessions[p]) = Len(kept)
                /\ \A k \in 1..Len(kept) :
                      /\ sessions[p][k].time_ago = kept[k].time_ago
                      /\ sessions[p][k].wins =
                            (IF WinsCapture(kept[k].details) = "" THEN 0
                             ELSE IntOf[WinsCapture(kept[k].details)])
                /\ TotalCount(heatmap_list[p]) =
                      TotalMatches(Dated(sessions[p]))

\* C7 witness: a page with more than MaxSessions session blocks, the one
\* after the cap with match tallies, and MaxSessions sessions returned
C7_Witness ==
    \E p \in Procs :
        /\ Returned(p)
        /\ Len(session_matches[p]) > MaxSessions
        /\ HasTally(session_matches[p][MaxSessions + 1])
        /\ Len(sessions[p]) = MaxSessions

\* a calendar day
ValidDate(d) ==
    /\ Len(d) = 3
    /\ d[1] >= 1
    /\ d[2] \in 1..12
    /\ d[3] \in 1..(DaysInMonthTable[d[2]]
                      + (IF d[2] = 2 /\ IsLeap(d[1]) THEN 1 ELSE 0))

\* the call normalized a phrase "<N> <unit> ago" with the given units
Normalized(units) ==
    /\ call.fn = "relative"
    /\ call.done
    /\ Len(call.phrase) = 3
    /\ call.phrase[1] \in DigitWords
    /\ Lower(call.phrase[2]) \in units
    /\ call.phrase[3] = "ago"

\* the day `back` days before today exists (it is not before 0001-01-01)
Representable(back) == back < Ymd2Ord(call.today)

\* the day `back` weeks before today exists
RepresentableWeeks(back) == back <= (Ymd2Ord(call.today) - 1) \div 7

\* C8: for "<N> <unit> ago" the normalizer returns today for hours, the
\* day N days before today for days and the day 7*N days before today for
\* weeks (whenever that day exists), as in the three examples.
C8_RelativeUnits ==
    LET N == IntOf[call.phrase[1]]
    IN  /\ Normalized({"hour", "hours"}) => call.result = call.today
        /\ (Normalized({"day", "days"}) /\ Representable(N)) =>
               /\ ValidDate(call.result)
               /\ Ymd2Ord(call.result) = Ymd2Ord(call.today) - N
        /\ (Normalized({"week", "weeks"}) /\ RepresentableWeeks(N)) =>
               /\ ValidDate(call.result)
               /\ Ymd2Ord(call.result) = Ymd2Ord(call.today) - 7 * N
        /\ (call.done /\ call.today = <<2025, 11, 15>>) =>
               /\ call.phrase = <<"3", "days", "ago">>
                      => call.result = <<2025, 11, 12>>
               /\ call.phrase = <<"5", "hours", "ago">>
                      => call.result = <<2025, 11, 15>>
               /\ call.phrase = <<"2", "weeks", "ago">>
                      => call.result = <<2025, 11, 1>>

\* C8 witness: "2 weeks ago" normalized on 2025-11-15
C8_Witness ==
    /\ Normalized({"weeks"})
    /\ call.phrase[1] = "2"
    /\ call.today = <<2025, 11, 15>>
    /\ call.result = <<2025, 11, 1>>

\* C9: a session "N month(s) ago" gets the date 30*N days before `now`.
C9_MonthsAreThirtyDays ==
    \A p \in Procs :
        \A k \in 1..Len(sessions[p]) :
            LET x == sessions[p][k]
            IN  (/\ Lower(x.time_ago[2]) \in {"month", "months"}
                 /\ nows[p] = {clock})
                => /\ x.date # NoDate
                   /\ Ymd2Ord(x.date) =
                          Ymd2Ord(clock) - 30 * IntOf[x.time_ago[1]]

NoInteger(phrase) == \A i \in 1..Len(phrase) : phrase[i] \notin DigitWords

NoUnitOf(phrase, units) ==
    \A i \in 1..Len(phrase) : \A u \in units : ~Contains(Lower(phrase[i]), u)

RankNames(p) == DOMAIN overview_data[p] \ {"__lifetime__"}

\* extract_ranks has returned to parse_all
RanksReturned(p) == pc[p] \notin {"idle", "ranks", "raised"}

Occurs(w, text) == \E i \in 1..Len(text) : text[i] = w

\* C11: every entry of the rank mapping has a rating above 0 or a tier
\* other than "Unranked", and a playlist whose label is not in the text
\* has no entry.
C11_NoEmptyRankEntry ==
    \A p \in Procs :
        RanksReturned(p) =>
            /\ \A name \in RankNames(p) :
                  \/ overview_data[p][name].mmr > 0
                  \/ overview_data[p][name].rank # <<"Unranked">>
            /\ \A k \in 1..Len(Playlists) :
                  ~Occurs(Playlists[k][1], soup[p])
                      => Playlists[k][2] \notin RankNames(p)

\* C11 witness: the page names Dropshot with rating 0 and no tier, and the
\* mapping holds other playlists and not Dropshot
C11_Witness ==
    \E p \in Procs :
        /\ RanksReturned(p)
        /\ \E i \in 1..(Len(soup[p]) - 1) :
              soup[p][i] = "Dropshot" /\ soup[p][i + 1] = "0"
        /\ "Dropshot" \notin RankNames(p)
        /\ RankNames(p) # {}

\* C12: where the first occurrence of a playlist label is followed by a
\* rating, division noise and "<Tier> <numeral> Div <d>", the playlist's
\* entry has that rating without its comma and the tier
\* "<Tier> <numeral> Div <d>" with the same d.
C12_CombinedRank ==
    \A p \in Procs :
        RanksReturned(p) =>
            \A k \in 1..Len(Playlists), t \in 1..Len(TierNames) :
                LET text == soup[p]
                    i == Min({x \in 1..Len(text) : text[x] = Playlists[k][1]})
                    j == i + 3
                    n == j + Len(TierNames[t])
                IN  (/\ Occurs(Playlists[k][1], text)
                     /\ n + 2 <= Len(text)
                     /\ text[i + 1] \in {"823", "1,096", "1,308"}
                     /\ text[i + 2] = "Div257"
                     /\ WordsAt(text, j, TierNames[t])
                     /\ text[n] \in Numerals
                     /\ text[n + 1] = "Div"
                     /\ text[n + 2] \in Numerals)
                    => /\ Playlists[k][2] \in RankNames(p)
                       /\ overview_data[p][Playlists[k][2]].mmr =
                              IntOf[NoComma(text[i + 1])]
                       /\ overview_data[p][Playlists[k][2]].rank =
                              SubSeq(text, j, n + 2)

GrandName ==
    ("I" :> "grand_champion_i") @@ ("II" :> "grand_champion_ii")
    @@ ("III" :> "grand_champion_iii")

\* C13: "Champion" never matches inside "Grand Champion": on a page where
\* every "Champion" follows "Grand" no recovered tier begins with
\* "Champion", a tier that begins with "Grand" goes on with "Champion",
\* and normalize_rank_name of "Grand Champion <numeral> ..." is the
\* grand_champion tier of that numeral.
C13_GrandChampionWhole ==
    /\ \A p \in Procs :
          RanksReturned(p) =>
              \A name \in RankNames(p) :
                  LET rank == overview_data[p][name].rank
                      text == soup[p]
                  IN  /\ (\A i \in 1..Len(text) :
                             text[i] = "Champion"
                                 => (i > 1 /\ text[i - 1] = "Grand"))
                         => Head(rank) # "Champion"
                      /\ Head(rank) = "Grand"
                         => (Len(rank) >= 2 /\ rank[2] = "Champion")
    /\ (/\ call.fn = "normalize"
        /\ Len(call.phrase) >= 3
        /\ SubSeq(call.phrase, 1, 2) = <<"Grand", "Champion">>
        /\ call.phrase[3] \in DOMAIN GrandName)
       => call.result = <<GrandName[call.phrase[3]]>>

\* C13 witness: "Grand Champion I Div I" was recovered from a page whose
\* only "Champion" follows "Grand", and normalized to grand_champion_i
C13_Witness ==
    /\ call.fn = "normalize"
    /\ call.phrase = <<"Grand", "Champion", "I", "Div", "I">>
    /\ call.result = <<"grand_champion_i">>
    /\ \E p \in Procs :
          /\ RanksReturned(p)
          /\ \A i \in 1..Len(soup[p]) :
                soup[p][i] = "Champion"
                    => (i > 1 /\ soup[p][i - 1] = "Grand")

\* C14: every match tally of every session has a count of at least 1 and
\* a rating of at least 0.
C14_TallyCountPositive ==
    \A p \in Procs :
        \A k \in 1..Len(sessions[p]) :
            \A m \in 1..Len(sessions[p][k].matches) :
                /\ sessions[p][k].matches[m].count >= 1
                /\ sessions[p][k].matches[m].mmr >= 0

\* C15: every match tally's playlist is one of the playlists of the rank
\* table.
C15_TallyPlaylistClosed ==
    \A p \in Procs :
        \A k \in 1..Len(sessions[p]) :
            \A m \in 1..Len(sessions[p][k].matches) :
                sessions[p][k].matches[m].playlist
                    \in {Playlists[x][2] : x \in 1..Len(Playlists)}

\* extract_lifetime_stats has returned to parse_all
LifetimeReturned(p) == pc[p] \in {"combine", "save", "dump", "done"}

\* the word at i is "<label><number>#..." for the k-th lifetime label
LabelledAt(text, i, k) ==
    /\ text[i] \in DOMAIN StatWords
    /\ StatWords[text[i]][1] = StatPatterns[k][2]

\* the k-th pattern of the lifetime table matches at i
PatternAt(text, i, k) ==
    /\ LabelledAt(text, i, k)
    /\ StatPatterns[k][1] = "Wins" => (i > 1 /\ Lower(text[i - 1]) = "lifetime")

\* the number of the word at i, as the entry of the k-th label holds it
Held(text, i, k) ==
    IF StatPatterns[k][1] = "Goal Shot Ratio"
    THEN {StatWords[text[i]][2], WithPercent[StatWords[text[i]][2]]}
    ELSE {StatWords[text[i]][2]}

\* C16: for every lifetime label, a text that has the label directly
\* followed by a number and '#' gives an entry for the label, holding a
\* number that follows the label in the text.
C16_LabelledNumberFound ==
    \A p \in Procs :
        LifetimeReturned(p) =>
            \A k \in 1..Len(StatPatterns) :
                (\E i \in 1..Len(soup[p]) : LabelledAt(soup[p], i, k))
                => /\ StatPatterns[k][1] \in DOMAIN lifetime_stats[p]
                   /\ \E i \in 1..Len(soup[p]) :
                         /\ LabelledAt(soup[p], i, k)
                         /\ lifetime_stats[p][StatPatterns[k][1]]
                                \in Held(soup[p], i, k)

\* C17: the lifetime mapping has an entry for a label exactly if the
\* label's pattern matches somewhere in the text, and the entry holds the
\* number of the first match in document order.
C17_FirstMatchPerLabel ==
    \A p \in Procs :
        LifetimeReturned(p) =>
            /\ DOMAIN lifetime_stats[p]
                   \subseteq {StatPatterns[k][1] : k \in 1..Len(StatPatterns)}
            /\ \A k \in 1..Len(StatPatterns) :
                  LET text == soup[p]
                      name == StatPatterns[k][1]
                  IN  IF \E i \in 1..Len(text) : PatternAt(text, i, k)
                      THEN /\ name \in DOMAIN lifetime_stats[p]
                           /\ \E i \in 1..Len(text) :
                                 /\ PatternAt(text, i, k)
                                 /\ \A j \in 1..(i - 1) : ~PatternAt(text, j, k)
                                 /\ lifetime_stats[p][name] \in Held(text, i, k)
                      ELSE name \notin DOMAIN lifetime_stats[p]

\* C17 witness: "goals7#1" comes before "Goals1,204#77" and the entry for
\* Goals is "7"; Assists has no match and no entry
C17_Witness ==
    \E p \in Procs :
        /\ LifetimeReturned(p)
        /\ \E i, j \in 1..Len(soup[p]) :
              /\ i < j
              /\ soup[p][i] = "goals7#1"
              /\ soup[p][j] = "Goals1,204#77"
        /\ "Goals" \in DOMAIN lifetime_stats[p]
        /\ lifetime_stats[p]["Goals"] = "7"
        /\ "Assists" \notin DOMAIN lifetime_stats[p]

\* the values that end with one percent sign and have no other
OnePercent == {"48.5%"}

\* the values with a percent sign in them
SomePercent == {"48.5%"}

\* C18: the value of "Goal Shot Ratio", when there is one, ends with
\* exactly one percent sign, and no other label's value has a percent
\* sign.
C18_RatioHasPercent ==
    \A p \in Procs :
        LifetimeReturned(p) =>
            \A name \in DOMAIN lifetime_stats[p] :
                IF name = "Goal Shot Ratio"
                THEN lifetime_stats[p][name] \in OnePercent
                ELSE lifetime_stats[p][name] \notin SomePercent

\* C18 witness: "Goal Shot Ratio48.5#9,633,706" gave "48.5%", next to a
\* Goals entry without a percent sign
C18_Witness ==
    \E p \in Procs :
        /\ LifetimeReturned(p)
        /\ Occurs("Goal Shot Ratio48.5#9,633,706", soup[p])
        /\ "Goal Shot Ratio" \in DOMAIN lifetime_stats[p]
        /\ lifetime_stats[p]["Goal Shot Ratio"] = "48.5%"
        /\ "Goals" \in DOMAIN lifetime_stats[p]
        /\ lifetime_stats[p]["Goals"] = "1,204"

\* C19: each count of the summary is the size of the family it names:
\* playlists = entries of the rank mapping, sessions = retained sessions,
\* heatmap days = heatmap entries, total matches = the sum of the tallies'
\* counts.
C19_SummaryCounts ==
    \A p \in Procs :
        summary[p] # <<>> =>
            /\ summary[p][1].playlists = Cardinality(RankNames(p))
            /\ summary[p][1].sessions = Len(sessions[p])
            /\ summary[p][1].heatmap_days = Len(heatmap_list[p])
            /\ summary[p][1].total_matches # <<>> =>
                   summary[p][1].total_matches[1] = TotalMatches(sessions[p])

\* C20: every heatmap entry has a count of at least 1 and the date of a
\* retained session with matches; a date whose sessions have no matches
\* has no entry.
C20_HeatmapEntriesBacked ==
    \A p \in Procs :
        Returned(p) =>
            /\ \A k \in 1..Len(heatmap_list[p]) :
                  /\ heatmap_list[p][k].count >= 1
                  /\ \E x \in 1..Len(sessions[p]) :
                        /\ sessions[p][x].date = heatmap_list[p][k].date
                        /\ SumCounts(sessions[p][x].matches) >= 1
            /\ \A d \in DatesSeen(p) :
                  TotalMatches(SessionsOn(sessions[p], d)) = 0
                      => EntriesOn(heatmap_list[p], d) = <<>>

\* C20 witness: a retained session of 0 matches whose date has no entry,
\* next to an entry of another date
C20_Witness ==
    \E p \in Procs :
        /\ Returned(p)
        /\ heatmap_list[p] # <<>>
        /\ \E x \in 1..Len(sessions[p]) :
              /\ sessions[p][x].date # NoDate
              /\ SumCounts(sessions[p][x].matches) = 0
              /\ EntriesOn(heatmap_list[p], sessions[p][x].date) = <<>>

\* the order of the calendar
Earlier(a, b) ==
    \/ a[1] < b[1]
    \/ a[1] = b[1] /\ a[2] < b[2]
    \/ a[1] = b[1] /\ a[2] = b[2] /\ a[3] < b[3]

\* C21: the iteration that handles a session with tallies and no date
\* appends it to the session list and leaves the heatmap accumulator as
\* it was.
C21_NullDateFrame ==
    [][\A p \in Procs :
          (pc[p] = "loop" /\ idx'[p] = idx[p] + 1) =>
              LET block == session_matches[p][idx[p]]
              IN  (HasTally(block)
                   /\ ParseRelativeDate(block.time_ago, clock) = NoDate) =>
                      /\ Len(sessions'[p]) = Len(sessions[p]) + 1
                      /\ SubSeq(sessions'[p], 1, Len(sessions[p]))
                             = sessions[p]
                      /\ sessions'[p][Len(sessions'[p])].date = NoDate
                      /\ sessions'[p][Len(sessions'[p])].time_ago
                             = block.time_ago
                      /\ heatmap_data'[p] = heatmap_data[p]]_vars

\* C21 witness: a retained session of 1 match without a date, after a
\* dated one whose matches are the whole heatmap
C21_Witness ==
    \E p \in Procs :
        /\ Returned(p)
        /\ Len(sessions[p]) = 2
        /\ sessions[p][1].date # NoDate
        /\ sessions[p][2].date = NoDate
        /\ SumCounts(sessions[p][2].matches) = 1
        /\ Len(heatmap_list[p]) = 1
        /\ heatmap_list[p][1].count = SumCounts(sessions[p][1].matches)

\* C22: the heatmap extract_matches returns is strictly ascending by
\* date: each entry's date is earlier than the next entry's.
C22_HeatmapAscending ==
    \A p \in Procs :
        Returned(p) =>
            \A k \in 1..(Len(heatmap_list[p]) - 1) :
                Earlier(heatmap_list[p][k].date, heatmap_list[p][k + 1].date)

\* the tallies of the retained sessions, in order
AllTallies(p) ==
    Concat([k \in 1..Len(sessions[p]) |-> sessions[p][k].matches])

\* the places of the text where a match tally is written
TallyPlaces(text) == {i \in 1..Len(text) : MatchCountAt(text, i)}

\* C23: every tally of a session is written in the text after a marker
\* and before any terminal sentinel: the retained sessions hold no more
\* tallies than the text has between its first marker and its first
\* sentinel.
C23_NoTallyPastSentinel ==
    \A p \in Procs :
        Returned(p) =>
            Len(AllTallies(p)) <=
                Cardinality(
                    {i \in TallyPlaces(soup[p]) :
                        /\ \E j \in 1..(i - 1) : IsMarker(soup[p][j])
                        /\ \A j \in 1..(i - 1) : ~IsSentinel(soup[p][j])})

\* C24: a session written "Saves 249 Matches Ranked Standard 3v3 1,096"
\* has a tally of 9 matches and 24 saves.
C24_RunTogetherSaves ==
    \A p \in Procs :
        (/\ Returned(p)
         /\ Len(soup[p]) >= Len(SessRun)
         /\ SubSeq(soup[p], 1, Len(SessRun)) = SessRun) =>
            /\ sessions[p] # <<>>
            /\ sessions[p][1].matches[1].count = 9
            /\ "saves" \in DOMAIN sessions[p][1]
            /\ sessions[p][1].saves = 24

\* C25: two retained sessions of one call with the same time phrase have
\* the same date.
C25_OneNowPerCall ==
    \A p \in Procs :
        Returned(p) =>
            \A x, y \in 1..Len(sessions[p]) :
                sessions[p][x].time_ago = sessions[p][y].time_ago
                    => sessions[p][x].date = sessions[p][y].date

\* the workers whose thread is running
Running == {w \in 1..Len(app.workers) : app.workers[w].pc # "finished"}

\* C26: every success signal comes from a worker whose scraper run
\* rewrote rl_stats.json.
C26_SuccessMeansNewStats ==
    \A k \in 1..Len(app.queue) :
        app.queue[k].success => app.workers[app.queue[k].worker].ran.json

\* C27: a worker has emitted finished at most once, and exactly once when
\* its run() has returned; and whenever the Refresh button is disabled it
\* is enabled again later.
C27_EmitsOnceThenEnabled ==
    /\ [](\A w \in 1..Len(app.workers) :
             /\ app.workers[w].emitted <= 1
             /\ app.workers[w].pc \in {"return", "finished"}
                    <=> app.workers[w].emitted = 1)
    /\ (~app.btn ~> app.btn)

\* C27 witness: the button is enabled again after a run that timed out
\* and one that succeeded
C27_Witness ==
    /\ app.btn
    /\ Len(app.workers) = 2
    /\ Running = {}
    /\ app.queue = <<>>
    /\ \A w \in 1..2 : app.workers[w].emitted = 1
    /\ app.workers[1].ran.exit = "timeout"
    /\ app.workers[2].ran = [exit |-> "0", html |-> TRUE, json |-> TRUE]
    /\ app.status = "Stats updated successfully!"

\* C28: at most one worker is running, and a click that finds the worker
\* running changes the status text and nothing else.
C28_OneWorker ==
    /\ [](Cardinality(Running) <= 1)
    /\ [][(app'.clicks = app.clicks + 1 /\ AlreadyRefreshing(app)) =>
              /\ app' = [app EXCEPT !.status = app'.status,
                                    !.clicks = app'.clicks]
              /\ app'.status = "Already refreshing..."
              /\ UNCHANGED <<parse_vars, scrape>>]_vars

\* C28 witness: the button was enabled again while the worker's thread was
\* still running, and a click found it running
C28_Witness ==
    /\ app.status = "Already refreshing..."
    /\ app.btn
    /\ Cardinality(Running) = 1
    /\ Len(app.workers) = 1
    /\ app.clicks = 2

FamilyNamed(t) ==
    IF NamedIn(t, <<"grand", "champion">>) THEN "Grand_champion"
    ELSE LET hits == {k \in 1..Len(IconRanks) :
                         NamedIn(t, <<IconRanks[k][1]>>)}
         IN  IF hits = {} THEN "" ELSE IconRanks[Min(hits)][2]

\* C30: rank_icon_path returns None or the icon of the rank and numeral
\* the text names; a text naming Grand Champion never gets a Champion
\* icon.
C30_IconOfNamedTier ==
    (call.fn = "icon" /\ call.done /\ call.result # <<>>) =>
        LET t == LowerPhrase(call.phrase)
        IN  /\ call.result \in call.icons
            /\ IF call.result = SupersonicIcon
               THEN NamedIn(t, <<"supersonic", "legend">>)
               ELSE /\ call.result[1] = FamilyNamed(t)
                    /\ call.result[2] =
                           TierNumber(t, IF FamilyNamed(t) = "Grand_champion"
                                         THEN <<"grand", "champion">>
                                         ELSE <<Lower(FamilyNamed(t))>>)

====
